---------------------------- MODULE Spec2Model ----------------------------
(***************************************************************************)
(* A model of the web-scraping pipeline: the selector-driven extractor     *)
(* (parser.py), the flat-file and database storage backends (storage.py),  *)
(* the fetch backends and their retry decorator (scraper.py) and the       *)
(* orchestrator execute_pipeline (main.py).                                *)
(*                                                                         *)
(* Each component has its own group of variables and its own               *)
(* specification; a specification keeps the other groups at their idle     *)
(* values.                                                                 *)
(***************************************************************************)
EXTENDS Integers, Sequences, FiniteSets, TLC

VARIABLES
    \* ---- Parser.parse_html (parser.py) ----
    p_pc,          \* "ready" before the call, "done" after it
    p_content,     \* the html_content argument
    p_selectors,   \* the selectors argument: selector key -> CSS selector
    p_result,      \* the mapping parse_html returned
    \* ---- CSVStorage (storage.py) ----
    csv_exists,    \* os.path.isfile(self.file_path)
    csv_rows,      \* the rows of the file, in file order
    csv_saved,     \* the records of the save calls that returned True, in order
    csv_all_ok,    \* every save call so far returned True
    csv_calls,     \* number of save calls made
    csv_given,     \* number of records handed to save, over all calls
    csv_ret,       \* what the last save call returned
    \* ---- one scraper.scrape(url) call on a fetch backend (scraper.py) ----
    f_mode,        \* the backend variant ScraperFactory selected
    f_max_retries, \* self.max_retries, from the settings
    f_kind,        \* how the url fails: transport error or non-2xx status
    f_fails0,      \* how many requests of the url fail before one succeeds
    f_fails,       \* how many of those failures are still to come
    f_pc,          \* "call", "failed", "returned" or "raised"
    f_attempts,    \* requests made so far
    f_waits,       \* the backoff waits slept between attempts, in order
    f_result,      \* what scrape returned: "content" or "None"
    f_error,       \* the exception that left scrape
    \* ---- MongoDBStorage and SQLiteStorage (storage.py) ----
    db_type,         \* "mongodb" or "sqlite"
    db_bool_raises,  \* the installed pymongo refuses bool(collection)
    db_pc,           \* "new" before __init__ has run, "ready" after
    db_client,       \* MongoDBStorage.client
    db_collection,   \* MongoDBStorage.collection
    db_engine,       \* SQLiteStorage.engine
    db_session,      \* SQLiteStorage.session
    db_table,        \* SQLiteStorage.table ("unset" while the attribute does not exist)
    db_connected,    \* the most recent _connect ran to its end
    db_attempts,     \* number of _connect calls so far
    db_stored,       \* number of records in the collection or table
    db_calls,        \* number of save and load calls so far
    db_last,         \* the last save or load call: what it found, did and returned
    \* ---- execute_pipeline (main.py) ----
    pc,              \* the statement execute_pipeline is at
    scraper_mode,    \* pipeline_config['scraper_mode']
    storage_type,    \* config.get_storage_type()
    config_urls,     \* pipeline_config's 'urls' entry: <<>> when the key is absent,
                     \* else <<l>> for the caller's list l
    site_name,       \* pipeline_config['site_name']
    site_urls,       \* the site registry's urls for site_name
    selectors,       \* the selector map in force
    extras,          \* which of extract_links / extract_images / extract_metadata are set
    scraper,         \* the fetch backend created ("none" before)
    storage,         \* the storage backend created ("none" before)
    opened,          \* what the backends have opened or created so far
    warned,          \* the factories that logged a fallback warning
    scraper_closed,  \* scraper.close() has been called
    storage_closed,  \* storage.close() has been called
    urls,            \* the resolved url list
    idx,             \* position in urls of the url being processed
    html_content,    \* what scraper.scrape returned for it
    parsed_data,     \* the record being built for it
    fetched,         \* the urls scraper.scrape was called with, in order
    outcomes,        \* how the processing of each url ended, in order
    saved,           \* the records handed to storage.save, as they were at the call,
                     \* each with the url it was built for
    save_returns,    \* what each storage.save call returned
    all_results,     \* the accumulated results
    delays,          \* the sleeps of the orchestrator, in order
    post_state,      \* "none", or how post-processing went
    ret,             \* what execute_pipeline returned
    \* ---- the table of a connected SQLiteStorage (storage.py) ----
    sq_rows,         \* the rows of the table, in insertion order
    sq_query,        \* the url the last load asked for ("unset" before any load)
    sq_read,         \* the rows the last load read, in order
    sq_loaded,       \* what the last load returned
    \* ---- one post_process(data, post_processing_config) call (main.py) ----
    pp_pc,           \* "frame", "ops" or "returned"
    pp_data,         \* the data argument
    pp_ops,          \* post_processing_config['operations']
    pp_export,       \* the format of post_processing_config['export'], or "None"
                     \* ("unread" until line 193 looks at it)
    pp_df,           \* the local df
    pp_i,            \* position in pp_ops of the next operation
    pp_trace,        \* df after each operation that was applied, in order
    pp_exported,     \* the tables written by the export, in order
    pp_failed,       \* the except clause was entered
    pp_result,       \* what post_process returned
    \* ---- one Parser.extract_links or extract_images call (parser.py) ----
    lk_pc,           \* "ready" before the call, "done" after it
    lk_base,         \* the base_url argument (empty for None)
    lk_refs,         \* the href or src values of the page's tags, in document order
    lk_call,         \* "none", "extract_links" or "extract_images"
    lk_result,       \* the list returned, each entry with the value it came from
    \* ---- JSONStorage on one path (storage.py) ----
    js_file,         \* the file: whether it exists, whether its text is one JSON
                     \* document, and the records its text holds
    js_stored,       \* the records of the save calls that returned True, in order
    js_saves,        \* number of save calls made
    js_last,         \* the last call: "none", "save" or "load"
    js_ret,          \* what the last save returned
    js_loaded,       \* what the last load returned
    \* ---- one PyppeteerScraper or PlaywrightScraper object (scraper.py) ----
    lz_mode,         \* "pyppeteer" or "playwright"
    lz_held,         \* the attributes among playwright, browser, context, page
                     \* that are not None
    lz_ready,        \* a _setup_browser call has run to its end
    lz_setups,       \* number of _setup_browser calls so far
    lz_calls,        \* number of scrape calls so far
    lz_last,         \* the last scrape or close call: what it found, did and how it ended
    lz_closed        \* close() has been called

parserVars == <<p_pc, p_content, p_selectors, p_result>>
csvVars == <<csv_exists, csv_rows, csv_saved, csv_all_ok, csv_calls, csv_given, csv_ret>>

fetchVars == <<f_mode, f_max_retries, f_kind, f_fails0, f_fails, f_pc, f_attempts,
               f_waits, f_result, f_error>>

dbVars == <<db_type, db_bool_raises, db_pc, db_client, db_collection, db_engine,
            db_session, db_table, db_connected, db_attempts, db_stored, db_calls, db_last>>

pipeVars == <<pc, scraper_mode, storage_type, config_urls, site_name, site_urls,
              selectors, extras, scraper, storage, opened, warned, scraper_closed,
              storage_closed, urls, idx, html_content, parsed_data, fetched, outcomes,
              saved, save_returns, all_results, delays, post_state, ret>>

sqVars == <<sq_rows, sq_query, sq_read, sq_loaded>>

ppVars == <<pp_pc, pp_data, pp_ops, pp_export, pp_df, pp_i, pp_trace, pp_exported,
            pp_failed, pp_result>>

lkVars == <<lk_pc, lk_base, lk_refs, lk_call, lk_result>>

jsVars == <<js_file, js_stored, js_saves, js_last, js_ret, js_loaded>>

lzVars == <<lz_mode, lz_held, lz_ready, lz_setups, lz_calls, lz_last, lz_closed>>

vars == <<parserVars, csvVars, fetchVars, dbVars, pipeVars, sqVars, ppVars, lkVars, jsVars,
          lzVars>>

notParser == <<csvVars, fetchVars, dbVars, pipeVars, sqVars, ppVars, lkVars, jsVars,
    lzVars>>
notCsv == <<parserVars, fetchVars, dbVars, pipeVars, sqVars, ppVars, lkVars, jsVars,
    lzVars>>
notFetch == <<parserVars, csvVars, dbVars, pipeVars, sqVars, ppVars, lkVars, jsVars,
    lzVars>>
notDb == <<parserVars, csvVars, fetchVars, pipeVars, sqVars, ppVars, lkVars, jsVars,
    lzVars>>
notPipe == <<parserVars, csvVars, fetchVars, dbVars, sqVars, ppVars, lkVars, jsVars,
    lzVars>>
notSq == <<parserVars, csvVars, fetchVars, dbVars, pipeVars, ppVars, lkVars, jsVars,
    lzVars>>
notPp == <<parserVars, csvVars, fetchVars, dbVars, pipeVars, sqVars, lkVars, jsVars,
    lzVars>>
notLk == <<parserVars, csvVars, fetchVars, dbVars, pipeVars, sqVars, ppVars, jsVars,
    lzVars>>
notJs == <<parserVars, csvVars, fetchVars, dbVars, pipeVars, sqVars, ppVars, lkVars,
    lzVars>>
notLz == <<parserVars, csvVars, fetchVars, dbVars, pipeVars, sqVars, ppVars, lkVars, jsVars>>

(***************************************************************************)
(* Bounds of the model.                                                    *)
(***************************************************************************)
MaxTextLen == 2      \* characters of one element's text
MaxElems == 2        \* elements of one page
MaxBatch == 2        \* records of one save call
MaxSaves == 2        \* save calls on one storage object
MaxRows == 3         \* records handed to one storage object, over all its calls
MaxRetriesCfg == 4   \* largest max_retries a settings document gives
MaxFails == 4        \* most consecutive failing requests of one url
MaxDbCalls == 3      \* save and load calls on one database storage object
MaxUrls == 2         \* urls listed in one pipeline configuration
MaxSqRows == 2       \* rows inserted into one table
MaxRecords == 3      \* records handed to one post_process call
MaxOps == 2          \* operations of one post-processing chain
MaxRefLen == 2       \* path characters of one relative href or src
MaxTags == 2         \* a or img tags of one page
MaxJsBatch == 1      \* records of one JSONStorage.save call
MaxJsSaves == 3      \* save calls on one JSON path
MaxScrapes == 3      \* scrape calls on one browser backend

(***************************************************************************)
(* Text.  A text is a sequence of characters; " " stands for whitespace.   *)
(***************************************************************************)
Chars == {" ", "a"}

RECURSIVE SeqsUpTo(_, _)
SeqsUpTo(S, n) ==
    IF n = 0 THEN {<<>>}
    ELSE LET shorter == SeqsUpTo(S, n - 1)
         IN  shorter \cup {Append(s, x) : s \in {t \in shorter : Len(t) = n - 1}, x \in S}

Texts == SeqsUpTo(Chars, MaxTextLen)

RECURSIVE LStrip(_)
LStrip(s) == IF s # <<>> /\ Head(s) = " " THEN LStrip(Tail(s)) ELSE s

RECURSIVE RStrip(_)
RStrip(s) ==
    IF s # <<>> /\ s[Len(s)] = " " THEN RStrip(SubSeq(s, 1, Len(s) - 1)) ELSE s

\* str.strip(): leading and trailing whitespace removed.
StripNoTrailing(s) == LStrip(s)
Strip(s) == RStrip(LStrip(s))

(***************************************************************************)
(* Pages.  A page's markup is a sequence of elements in document order,    *)
(* each with a tag and its raw text; the empty string is a page of its     *)
(* own (raw_empty), different from markup that holds no element.           *)
(***************************************************************************)
Tags == {"h1", "p"}
Elements == [tag : Tags, text : Texts]
Contents ==
    {[raw_empty |-> TRUE, elems |-> <<>>]}
        \cup {[raw_empty |-> FALSE, elems |-> e] : e \in SeqsUpTo(Elements, MaxElems)}

\* soup.select(selector): the elements the selector matches, in document order.
Select(content, selector) ==
    SelectSeq(content.elems, LAMBDA e : e.tag = selector)

\* [elem.get_text().strip() for elem in elements]
StrippedTexts(elements) == [i \in 1..Len(elements) |-> Strip(elements[i].text)]

RECURSIVE Concat(_)
Concat(ss) == IF ss = <<>> THEN <<>> ELSE Head(ss) \o Concat(Tail(ss))

\* soup.get_text(): the texts of the page, concatenated, not trimmed.
GetText(content) == Concat([i \in 1..Len(content.elems) |-> content.elems[i].text])

(***************************************************************************)
(* Values of a record.                                                     *)
(***************************************************************************)
Null == [kind |-> "null", v |-> <<>>]
Scalar(t) == [kind |-> "scalar", v |-> t]
List(ts) == [kind |-> "list", v |-> ts]

SelectorKeys == {"title", "price"}
SelectorMaps == UNION {[ks -> Tags] : ks \in SUBSET SelectorKeys}

EmptyRecord == <<>>

\* The value parse_html stores for one selector: None for no match, the
\* trimmed texts otherwise, collapsed to the text itself when there is one.
CollapseNever(elements) ==
    IF elements # <<>> THEN List(StrippedTexts(elements)) ELSE Null
Collapse(elements) ==
    IF elements # <<>>
    THEN LET texts == StrippedTexts(elements)
         IN  IF Len(texts) = 1 THEN Scalar(texts[1]) ELSE List(texts)
    ELSE Null

\* Parser.parse_html(html_content, selectors)
parse_html(content, sels) ==
    IF content.raw_empty THEN EmptyRecord
    ELSE IF DOMAIN sels = {} THEN [k \in {"text"} |-> Scalar(GetText(content))]
    ELSE [key \in DOMAIN sels |-> Collapse(Select(content, sels[key]))]

(***************************************************************************)
(* Specification of the extractor: one call of parse_html on any page and  *)
(* any selector map.                                                       *)
(***************************************************************************)
ParserIdle ==
    /\ p_pc = "idle"
    /\ p_content = [raw_empty |-> TRUE, elems |-> <<>>]
    /\ p_selectors = <<>>
    /\ p_result = EmptyRecord

ParserInit ==
    /\ p_pc = "ready"
    /\ p_content \in Contents
    /\ p_selectors \in SelectorMaps
    /\ p_result = EmptyRecord

ParseHtml ==
    /\ p_pc = "ready"
    /\ p_result' = parse_html(p_content, p_selectors)
    /\ p_pc' = "done"
    /\ UNCHANGED <<p_content, p_selectors>>
    /\ UNCHANGED notParser


(***************************************************************************)
(* CSVStorage (storage.py).  A record maps field names to values; a value  *)
(* is a scalar, a list, null or a nested mapping.  The file is a sequence  *)
(* of rows; a row holds its cells in the order of the fieldnames of the    *)
(* DictWriter that wrote it (fields), and kind tells which of              *)
(* writeheader and writerows wrote it.                                     *)
(***************************************************************************)
Dict(m) == [kind |-> "dict", v |-> m]

One == Scalar(<<"1">>)
Two == Scalar(<<"2">>)

\* The records handed to save: field a is a scalar or a nested mapping,
\* field x is a scalar; either may be absent.
CsvRecords ==
    UNION {[ks -> {One, Dict([b |-> One]), Dict([b |-> One, c |-> Two])}]
              : ks \in SUBSET {"a"}}
      \cup {[k \in {"x"} |-> Two], [k \in {"a", "x"} |-> IF k = "a" THEN Dict([b |-> One]) ELSE Two]}

\* The data argument of save: one record, or a list of records.
CsvData ==
    [list : {FALSE}, items : {<<r>> : r \in CsvRecords}]
      \cup [list : {TRUE}, items : SeqsUpTo(CsvRecords, MaxBatch)]

\* if not isinstance(data, list): data = [data]
Normalize(data) == data.items

DictKeys(item) == {k \in DOMAIN item : item[k].kind = "dict"}

\* The keys of flat_item: f"{key}_{subkey}" for the entries of a nested
\* mapping, the key itself otherwise.
FlatKeysNoPrefix(item) ==
    (DOMAIN item \ DictKeys(item))
        \cup {sk : sk \in UNION {DOMAIN item[k].v : k \in DictKeys(item)}}
FlatKeys(item) ==
    (DOMAIN item \ DictKeys(item))
        \cup UNION {{k \o "_" \o sk : sk \in DOMAIN item[k].v} : k \in DictKeys(item)}

\* flat_item: nested mappings flattened one level deep.
Flatten(item) ==
    [fk \in FlatKeys(item) |->
        IF fk \in DOMAIN item /\ item[fk].kind # "dict"
        THEN item[fk]
        ELSE LET k == CHOOSE k \in DictKeys(item) :
                          \E sk \in DOMAIN item[k].v : fk = k \o "_" \o sk
                 sk == CHOOSE sk \in DOMAIN item[k].v : fk = k \o "_" \o sk
             IN  item[k].v[sk]]

FlatData(data) == [i \in 1..Len(data) |-> Flatten(data[i])]

\* fieldnames: the union of the keys of the batch.
Fieldnames(flat_data) == UNION {DOMAIN flat_data[i] : i \in 1..Len(flat_data)}

\* list(fieldnames): the set in some order.
Orders(S) == {o \in SeqsUpTo(S, Cardinality(S)) :
                 Len(o) = Cardinality(S) /\ \A i, j \in 1..Len(o) : o[i] = o[j] => i = j}

\* The cell DictWriter writes for a field: the value, restval '' when the
\* row has no such field.
Cell(flat_item, f) == IF f \in DOMAIN flat_item THEN flat_item[f] ELSE Scalar(<<>>)

HeaderRow(order) == [kind |-> "header", fields |-> order, cells |-> order]
DataRow(order, flat_item) ==
    [kind |-> "data", fields |-> order,
     cells |-> [i \in 1..Len(order) |-> Cell(flat_item, order[i])]]
DataRows(order, flat_data) == [i \in 1..Len(flat_data) |-> DataRow(order, flat_data[i])]

\* What the with-block appends to the file: the header when the file did not
\* exist, then the rows of the batch.
WrittenHeaderAlways(file_exists, order, flat_data) ==
    <<HeaderRow(order)>> \o DataRows(order, flat_data)
Written(file_exists, order, flat_data) ==
    (IF file_exists THEN <<>> ELSE <<HeaderRow(order)>>) \o DataRows(order, flat_data)

CsvIdle ==
    /\ csv_exists = FALSE
    /\ csv_rows = <<>>
    /\ csv_saved = <<>>
    /\ csv_all_ok = TRUE
    /\ csv_calls = 0
    /\ csv_given = 0
    /\ csv_ret = "none"


\* CSVStorage.save(data) returning True.
CsvSaveOk ==
    /\ csv_calls < MaxSaves
    /\ \E data \in CsvData :
          LET flat_data == FlatData(Normalize(data))
          IN  /\ csv_given + Len(Normalize(data)) <= MaxRows
              /\ csv_given' = csv_given + Len(Normalize(data))
              /\ \E order \in Orders(Fieldnames(flat_data)) :
                    /\ csv_rows' = csv_rows \o Written(csv_exists, order, flat_data)
                    /\ csv_saved' = csv_saved \o Normalize(data)
    /\ csv_exists' = TRUE
    /\ csv_calls' = csv_calls + 1
    /\ csv_ret' = "True"
    /\ UNCHANGED csv_all_ok
    /\ UNCHANGED notCsv

\* CSVStorage.save(data) when os.makedirs or open raises: nothing is written.
CsvSaveOpenFails ==
    /\ csv_calls < MaxSaves
    /\ csv_calls' = csv_calls + 1
    /\ csv_ret' = "False"
    /\ csv_all_ok' = FALSE
    /\ UNCHANGED <<csv_exists, csv_rows, csv_saved, csv_given>>
    /\ UNCHANGED notCsv

\* CSVStorage.save(data) when the writer raises part-way: the file exists and
\* holds a prefix of what the call was writing.
CsvSaveWriteFails ==
    /\ csv_calls < MaxSaves
    /\ \E data \in CsvData :
          LET flat_data == FlatData(Normalize(data))
          IN  /\ csv_given + Len(Normalize(data)) <= MaxRows
              /\ csv_given' = csv_given + Len(Normalize(data))
              /\ \E order \in Orders(Fieldnames(flat_data)) :
                    LET w == Written(csv_exists, order, flat_data)
                    IN  \E n \in 0..(Len(w) - 1) :
                           csv_rows' = csv_rows \o SubSeq(w, 1, n)
    /\ csv_exists' = TRUE
    /\ csv_calls' = csv_calls + 1
    /\ csv_ret' = "False"
    /\ csv_all_ok' = FALSE
    /\ UNCHANGED csv_saved
    /\ UNCHANGED notCsv

CsvNext == CsvSaveOk \/ CsvSaveOpenFails \/ CsvSaveWriteFails


(***************************************************************************)
(* Fetch backends (scraper.py): one scrape(url) call.  The url fails its   *)
(* first f_fails0 requests (a transport error or a non-2xx status, which   *)
(* raise_for_status turns into an exception) and answers the next one.     *)
(***************************************************************************)
Modes == {"simple", "selenium", "scrapy", "pyppeteer", "playwright"}
BrowserModes == {"selenium", "pyppeteer", "playwright"}

\* @retry(stop=stop_after_attempt(3), wait=wait_exponential(multiplier=1, min=2, max=60))
StopAfterAttempt == 3
WaitMultiplier == 1
WaitMin == 2
WaitMax == 60

\* CrawlerProcess is given USER_AGENT and DOWNLOAD_DELAY only, so the
\* framework's retry middleware keeps its default of 2 retries per request.
ScrapyRetryTimes == 2

Max(a, b) == IF a >= b THEN a ELSE b
Min(a, b) == IF a <= b THEN a ELSE b

RECURSIVE Pow2(_)
Pow2(n) == IF n = 0 THEN 1 ELSE 2 * Pow2(n - 1)

\* tenacity's wait_exponential after attempt number n:
\* max(max(0, min), min(multiplier * 2 ** (n - 1), max))
wait_exponential(n) ==
    Max(Max(0, WaitMin), Min(WaitMultiplier * Pow2(n - 1), WaitMax))

\* tenacity's stop_after_attempt: the decorator's literal, not self.max_retries.
stop_after_attempt(attempt_number) == attempt_number >= StopAfterAttempt

FetchIdle ==
    /\ f_mode = "simple"
    /\ f_max_retries = 3
    /\ f_kind = "transport"
    /\ f_fails0 = 0
    /\ f_fails = 0
    /\ f_pc = "idle"
    /\ f_attempts = 0
    /\ f_waits = <<>>
    /\ f_result = "none"
    /\ f_error = "none"

FetchInit ==
    /\ f_mode \in Modes
    /\ f_max_retries \in 1..MaxRetriesCfg
    /\ f_kind \in {"transport", "status"}
    /\ f_fails0 \in 0..MaxFails
    /\ f_fails = f_fails0
    /\ f_pc = "call"
    /\ f_attempts = 0
    /\ f_waits = <<>>
    /\ f_result = "none"
    /\ f_error = "none"

fetchEnv == <<f_mode, f_max_retries, f_kind, f_fails0>>

\* SimpleScraper.scrape, the decorated body: one request; an exception is
\* logged and raised again, to the retry decorator.
SimpleAttempt ==
    /\ f_mode = "simple"
    /\ f_pc = "call"
    /\ f_attempts' = f_attempts + 1
    /\ IF f_fails > 0
       THEN /\ f_fails' = f_fails - 1
            /\ f_pc' = "failed"
            /\ UNCHANGED f_result
       ELSE /\ f_pc' = "returned"
            /\ f_result' = "content"
            /\ UNCHANGED f_fails
    /\ UNCHANGED <<fetchEnv, f_waits, f_error>>
    /\ UNCHANGED notFetch

\* The retry decorator after a failed attempt, still allowed to retry: it
\* sleeps wait_exponential and calls the body again.
TenacityWait ==
    /\ f_mode = "simple"
    /\ f_pc = "failed"
    /\ ~stop_after_attempt(f_attempts)
    /\ f_waits' = Append(f_waits, wait_exponential(f_attempts))
    /\ f_pc' = "call"
    /\ UNCHANGED <<fetchEnv, f_fails, f_attempts, f_result, f_error>>
    /\ UNCHANGED notFetch

\* The retry decorator after the last allowed attempt failed: reraise is not
\* set, so it raises tenacity's RetryError, which wraps the last exception.
TenacityStop ==
    /\ f_mode = "simple"
    /\ f_pc = "failed"
    /\ stop_after_attempt(f_attempts)
    /\ f_error' = "RetryError"
    /\ f_pc' = "raised"
    /\ UNCHANGED <<fetchEnv, f_fails, f_attempts, f_waits, f_result>>
    /\ UNCHANGED notFetch

\* SeleniumScraper.scrape, PyppeteerScraper.scrape, PlaywrightScraper.scrape:
\* one navigation, undecorated; its exception leaves scrape as it is.
BrowserAttempt ==
    /\ f_mode \in BrowserModes
    /\ f_pc = "call"
    /\ f_attempts' = f_attempts + 1
    /\ IF f_fails > 0
       THEN /\ f_fails' = f_fails - 1
            /\ f_pc' = "raised"
            /\ f_error' = f_kind
            /\ UNCHANGED f_result
       ELSE /\ f_pc' = "returned"
            /\ f_result' = "content"
            /\ UNCHANGED <<f_fails, f_error>>
    /\ UNCHANGED <<fetchEnv, f_waits>>
    /\ UNCHANGED notFetch

\* ScrapyScraper.scrape: one crawl of the url.  The framework repeats a
\* failed request at once, ScrapyRetryTimes times at most; a request that
\* still fails is logged by the framework, parse is never called and scrape
\* returns None.
ScrapyCrawl ==
    /\ f_mode = "scrapy"
    /\ f_pc = "call"
    /\ LET made == Min(f_fails + 1, 1 + ScrapyRetryTimes)
       IN  /\ f_attempts' = f_attempts + made
           /\ f_fails' = Max(0, f_fails - made)
           /\ f_result' = IF f_fails < made THEN "content" ELSE "None"
    /\ f_pc' = "returned"
    /\ UNCHANGED <<fetchEnv, f_waits, f_error>>
    /\ UNCHANGED notFetch

FetchNext == SimpleAttempt \/ TenacityWait \/ TenacityStop \/ BrowserAttempt \/ ScrapyCrawl


(***************************************************************************)
(* MongoDBStorage and SQLiteStorage (storage.py): the connection fields    *)
(* and the calls that read them.  _connect swallows its exception, so a    *)
(* failed _connect leaves the fields assigned before the failing line.     *)
(***************************************************************************)
\* Where a MongoDBStorage._connect may stop: MongoClient(uri) raises, or
\* the database / collection lookup raises; "ok" runs to the end.
MongoOutcomes == {"ok", "client_raises", "lookup_raises"}

\* Where a SQLiteStorage._connect may stop: os.makedirs raises (before the
\* engine is assigned), or metadata.create_all raises when it opens the
\* database file (after the engine and the table are assigned).
SqliteOutcomes == {"ok", "makedirs_raises", "create_all_raises"}

ConnectOutcomes(type) == IF type = "mongodb" THEN MongoOutcomes ELSE SqliteOutcomes

\* MongoDBStorage._connect
MongoClientAfter(outcome, client) == IF outcome = "client_raises" THEN client ELSE "client"
MongoCollectionAfter(outcome, collection) == IF outcome = "ok" THEN "collection" ELSE collection

\* SQLiteStorage._connect
SqliteEngineAfter(outcome, engine) == IF outcome = "makedirs_raises" THEN engine ELSE "engine"
SqliteTableAfter(outcome, table) == IF outcome = "makedirs_raises" THEN table ELSE "table"
SqliteSessionAfter(outcome, session) == IF outcome = "ok" THEN "session" ELSE session

\* if not self.collection  /  if not self.engine or not self.session
SaveNeedsConnect(type, collection, engine, session) ==
    IF type = "mongodb" THEN collection = "None"
    ELSE engine = "None" \/ session = "None"

\* if not self.collection  /  if not self.engine
LoadNeedsConnect(type, collection, engine, session) ==
    IF type = "mongodb" THEN collection = "None"
    ELSE engine = "None"

\* bool(self.collection) on a collection object raises NotImplementedError
\* under the pymongo versions that refuse truth value testing.
TruthTestRaises == db_type = "mongodb" /\ db_collection # "None" /\ db_bool_raises

NoCall == [op |-> "none", connected_before |-> FALSE, connect_called |-> FALSE,
           connect_ok |-> FALSE, ret |-> "none", escaped |-> FALSE]

DbIdle ==
    /\ db_type = "mongodb"
    /\ db_bool_raises = FALSE
    /\ db_pc = "idle"
    /\ db_client = "None"
    /\ db_collection = "None"
    /\ db_engine = "None"
    /\ db_session = "None"
    /\ db_table = "unset"
    /\ db_connected = FALSE
    /\ db_attempts = 0
    /\ db_stored = 0
    /\ db_calls = 0
    /\ db_last = NoCall

\* The fields as __init__ sets them before it calls _connect.
DbInit ==
    /\ db_type \in {"mongodb", "sqlite"}
    /\ db_bool_raises \in BOOLEAN
    /\ db_pc = "new"
    /\ db_client = "None"
    /\ db_collection = "None"
    /\ db_engine = "None"
    /\ db_session = "None"
    /\ db_table = "unset"
    /\ db_connected = FALSE
    /\ db_attempts = 0
    /\ db_stored = 0
    /\ db_calls = 0
    /\ db_last = NoCall

dbEnv == <<db_type, db_bool_raises>>

\* self._connect() with the given outcome: the fields it assigns.
Connect(outcome) ==
    /\ db_attempts' = db_attempts + 1
    /\ db_connected' = (outcome = "ok")
    /\ IF db_type = "mongodb"
       THEN /\ db_client' = MongoClientAfter(outcome, db_client)
            /\ db_collection' = MongoCollectionAfter(outcome, db_collection)
            /\ UNCHANGED <<db_engine, db_session, db_table>>
       ELSE /\ db_engine' = SqliteEngineAfter(outcome, db_engine)
            /\ db_table' = SqliteTableAfter(outcome, db_table)
            /\ db_session' = SqliteSessionAfter(outcome, db_session)
            /\ UNCHANGED <<db_client, db_collection>>

NoConnect ==
    UNCHANGED <<db_attempts, db_connected, db_client, db_collection, db_engine,
                db_session, db_table>>

\* MongoDBStorage.__init__ / SQLiteStorage.__init__: the fields, then _connect.
DbConstruct ==
    /\ db_pc = "new"
    /\ \E outcome \in ConnectOutcomes(db_type) : Connect(outcome)
    /\ db_pc' = "ready"
    /\ UNCHANGED <<dbEnv, db_stored, db_calls, db_last>>
    /\ UNCHANGED notDb

\* save(data) that finds the guard true and calls _connect first.
DbSaveConnecting ==
    /\ db_pc = "ready"
    /\ db_calls < MaxDbCalls
    /\ ~TruthTestRaises
    /\ SaveNeedsConnect(db_type, db_collection, db_engine, db_session)
    /\ \E outcome \in ConnectOutcomes(db_type) : \E write_ok \in BOOLEAN :
          /\ Connect(outcome)
          /\ LET still == SaveNeedsConnect(db_type, db_collection', db_engine', db_session')
                 ok == ~still /\ write_ok /\ ~(db_type = "mongodb" /\ db_bool_raises)
             IN  /\ db_stored' = IF ok THEN db_stored + 1 ELSE db_stored
                 /\ db_last' = [op |-> "save", connected_before |-> db_connected,
                                connect_called |-> TRUE, connect_ok |-> outcome = "ok",
                                ret |-> IF ok THEN "True" ELSE "False", escaped |-> FALSE]
    /\ db_calls' = db_calls + 1
    /\ UNCHANGED <<dbEnv, db_pc>>
    /\ UNCHANGED notDb

\* save(data) that finds the guard false (or whose guard raises inside the
\* try) and goes on with the fields as they are.
DbSaveDirect ==
    /\ db_pc = "ready"
    /\ db_calls < MaxDbCalls
    /\ TruthTestRaises \/ ~SaveNeedsConnect(db_type, db_collection, db_engine, db_session)
    /\ \E write_ok \in BOOLEAN :
          LET ok == write_ok /\ ~TruthTestRaises
          IN  /\ db_stored' = IF ok THEN db_stored + 1 ELSE db_stored
              /\ db_last' = [op |-> "save", connected_before |-> db_connected,
                             connect_called |-> FALSE, connect_ok |-> FALSE,
                             ret |-> IF ok THEN "True" ELSE "False", escaped |-> FALSE]
    /\ NoConnect
    /\ db_calls' = db_calls + 1
    /\ UNCHANGED <<dbEnv, db_pc>>
    /\ UNCHANGED notDb

\* load() that finds the guard true and calls _connect first.
DbLoadConnecting ==
    /\ db_pc = "ready"
    /\ db_calls < MaxDbCalls
    /\ ~TruthTestRaises
    /\ LoadNeedsConnect(db_type, db_collection, db_engine, db_session)
    /\ \E outcome \in ConnectOutcomes(db_type) : \E read_ok \in BOOLEAN :
          /\ Connect(outcome)
          /\ LET still == LoadNeedsConnect(db_type, db_collection', db_engine', db_session')
                 ok == ~still /\ read_ok /\ outcome = "ok"
                          /\ ~(db_type = "mongodb" /\ db_bool_raises)
             IN  db_last' = [op |-> "load", connected_before |-> db_connected,
                             connect_called |-> TRUE, connect_ok |-> outcome = "ok",
                             ret |-> IF ok /\ db_stored > 0 THEN "records" ELSE "empty",
                             escaped |-> FALSE]
    /\ db_calls' = db_calls + 1
    /\ UNCHANGED <<dbEnv, db_pc, db_stored>>
    /\ UNCHANGED notDb

\* load() that finds the guard false (or whose guard raises inside the try)
\* and queries through the fields as they are; a query that raises, as it
\* does on a table that was never created, returns the empty list.
DbLoadDirect ==
    /\ db_pc = "ready"
    /\ db_calls < MaxDbCalls
    /\ TruthTestRaises \/ ~LoadNeedsConnect(db_type, db_collection, db_engine, db_session)
    /\ \E read_ok \in BOOLEAN :
          LET ok == read_ok /\ ~TruthTestRaises /\ db_connected
          IN  db_last' = [op |-> "load", connected_before |-> db_connected,
                          connect_called |-> FALSE, connect_ok |-> FALSE,
                          ret |-> IF ok /\ db_stored > 0 THEN "records" ELSE "empty",
                          escaped |-> FALSE]
    /\ NoConnect
    /\ db_calls' = db_calls + 1
    /\ UNCHANGED <<dbEnv, db_pc, db_stored>>
    /\ UNCHANGED notDb

DbNext == DbConstruct \/ DbSaveConnecting \/ DbSaveDirect \/ DbLoadConnecting \/ DbLoadDirect


(***************************************************************************)
(* SQLiteStorage.save and load on a connected storage (storage.py).        *)
(***************************************************************************)
\* The columns load reads back as first-class fields, and the ones save
\* takes out of the record.
PromotedKeys == {"id", "url", "title", "content", "timestamp"}
ColumnKeys == {"url", "title", "content"}

\* The records handed to save: any of these keys, each with a value of the
\* record's own.
SqItemKeys == {"url", "timestamp", "id", "site_name"}
SqUrls == {"a", "b"}
SqItems ==
    UNION {[K -> {"rec"}] : K \in SUBSET (SqItemKeys \ {"url"})}
    \cup UNION {{[k \in K \cup {"url"} |-> IF k = "url" THEN u ELSE "rec"] : u \in SqUrls}
                : K \in SUBSET (SqItemKeys \ {"url"})}

\* item.get(key, '')
GetOr(item, key) == IF key \in DOMAIN item THEN item[key] ELSE ""

\* The primary key the table gives its n-th row.
RowId(n) == <<"1", "2", "3", "4">>[n]

\* Lines 342-361: the row save inserts for one record.  url, title and
\* content go to their columns, every other key to the JSON text; the
\* timestamp column gets save's own datetime.now().
SqRow(item, n) ==
    [id |-> RowId(n),
     url |-> GetOr(item, "url"),
     title |-> GetOr(item, "title"),
     content |-> GetOr(item, "content"),
     timestamp |-> "datetime.now()",
     metadata |-> [k \in DOMAIN item \ ColumnKeys |-> item[k]]]

\* Lines 406-412: the mapping load starts from.
IsoFormat(t) == t \o ".isoformat()"
Promoted(row) ==
    [k \in PromotedKeys |-> IF k = "timestamp" THEN IsoFormat(row[k]) ELSE row[k]]

\* dict.update: the keys of both, the argument's value where both have one.
Update(d, other) ==
    [k \in DOMAIN d \cup DOMAIN other |-> IF k \in DOMAIN other THEN other[k] ELSE d[k]]

\* Lines 405-422: one row as load returns it.
SqItem(row) == Update(Promoted(row), row.metadata)

\* Lines 391-399: the rows the query selects.
SqSelect(rows, query) ==
    LET Matches(row) == query = "None" \/ row.url = query
    IN  SelectSeq(rows, Matches)

RECURSIVE SqResults(_)
SqResults(rows) ==
    IF rows = <<>> THEN <<>> ELSE <<SqItem(Head(rows))>> \o SqResults(Tail(rows))

SqIdle ==
    /\ sq_rows = <<>>
    /\ sq_query = "unset"
    /\ sq_read = <<>>
    /\ sq_loaded = <<>>

\* save(item) on the connected storage.
SqSave ==
    /\ Len(sq_rows) < MaxSqRows
    /\ \E item \in SqItems : sq_rows' = Append(sq_rows, SqRow(item, Len(sq_rows) + 1))
    /\ UNCHANGED <<sq_query, sq_read, sq_loaded>>
    /\ UNCHANGED notSq

\* load(query) on the connected storage.
SqLoad ==
    /\ \E query \in {"None"} \cup SqUrls :
          /\ sq_query' = query
          /\ sq_read' = SqSelect(sq_rows, query)
          /\ sq_loaded' = SqResults(SqSelect(sq_rows, query))
    /\ UNCHANGED sq_rows
    /\ UNCHANGED notSq

SqNext == SqSave \/ SqLoad


(***************************************************************************)
(* post_process (main.py).  A table is the DataFrame df: its columns and   *)
(* its rows in positional order.                                           *)
(***************************************************************************)
\* The values a record holds: integers, and a list (what the extractor gives
\* a selector with several matches), which pandas cannot hash.
IntCell(v) == [kind |-> "int", v |-> v]
ListCell == [kind |-> "list", v |-> 0]

\* The records handed to post_process.
PpRecords ==
    [x : {IntCell(1), IntCell(2)}, y : {IntCell(2), IntCell(3)}]
    \cup {[x |-> ListCell, y |-> IntCell(2)]}
PpData == SeqsUpTo(PpRecords, MaxRecords)

\* The operations a chain is made of: a filter on a column of the table, a
\* filter on a column that is not there, a descending sort, the two forms of
\* deduplicate, and a type post_process does not know.
Operation(type, column, columns) ==
    [type |-> type, column |-> column, value |-> IntCell(1), condition |-> "equals",
     ascending |-> FALSE, columns |-> columns]
PpOperations ==
    {Operation("filter", "x", {}), Operation("filter", "z", {}),
     Operation("sort", "x", {}),
     Operation("deduplicate", "None", {}), Operation("deduplicate", "None", {"x"}),
     Operation("rename", "x", {})}
PpChains == SeqsUpTo(PpOperations, MaxOps)
ExportFormats == {"None", "csv"}

\* pd.DataFrame(data): the columns are the keys of the records.
DataFrame(data) ==
    [columns |-> UNION {DOMAIN data[i] : i \in 1..Len(data)}, rows |-> data]

\* df.to_dict('records')
ToDict(df) == df.rows

\* df[df[column] == value]: the rows whose cell equals the value, in order.
FilterKeepsAll(df, column, value) == df
FilterEquals(df, column, value) ==
    LET Keeps(row) == row[column] = value
    IN  [df EXCEPT !.rows = SelectSeq(df.rows, Keeps)]

\* df.sort_values(by=column, ascending=ascending): the rows in an order
\* sorted by the column; the default sort is not stable, so rows with equal
\* keys come in any order.
InOrder(a, b, ascending) == IF ascending THEN a.v <= b.v ELSE a.v >= b.v
Remove(rows, i) == SubSeq(rows, 1, i - 1) \o SubSeq(rows, i + 1, Len(rows))
RECURSIVE SortedOrders(_, _, _)
SortedOrders(rows, column, ascending) ==
    IF rows = <<>> THEN {<<>>}
    ELSE LET first == {i \in 1..Len(rows) :
                          \A j \in 1..Len(rows) :
                              InOrder(rows[i][column], rows[j][column], ascending)}
         IN  UNION {{<<rows[i]>> \o rest :
                        rest \in SortedOrders(Remove(rows, i), column, ascending)} :
                    i \in first}
SortValues(df, column, ascending) ==
    {[df EXCEPT !.rows = rows] : rows \in SortedOrders(df.rows, column, ascending)}

\* The columns drop_duplicates compares: the subset, or all of them.
DedupColumns(df, columns) == IF columns = {} THEN df.columns ELSE columns
Project(row, columns) == [c \in columns |-> row[c]]

\* df.drop_duplicates(subset): the rows in order, leaving out each row whose
\* values on the columns were seen in a row before it.
DropNothing(rows, seen, columns) == rows
RECURSIVE DropFrom(_, _, _)
DropFrom(rows, seen, columns) ==
    IF rows = <<>> THEN <<>>
    ELSE LET key == Project(Head(rows), columns)
         IN  IF key \in seen THEN DropFrom(Tail(rows), seen, columns)
             ELSE <<Head(rows)>> \o DropFrom(Tail(rows), seen \cup {key}, columns)
DropDuplicates(df, columns) ==
    [df EXCEPT !.rows = DropFrom(df.rows, {}, DedupColumns(df, columns))]

\* The operation raises: drop_duplicates on a table with rows when the
\* subset names a column that is not there or a compared cell is a list
\* (unhashable); sort_values when the column holds lists and integers.
OpRaises(op, df) ==
    CASE op.type = "deduplicate" ->
            /\ df.rows # <<>>
            /\ \/ ~(DedupColumns(df, op.columns) \subseteq df.columns)
               \/ \E i \in 1..Len(df.rows) :
                     \E c \in DedupColumns(df, op.columns) : df.rows[i][c].kind = "list"
      [] op.type = "sort" ->
            /\ op.column \in df.columns
            /\ \E i, j \in 1..Len(df.rows) :
                  df.rows[i][op.column].kind # df.rows[j][op.column].kind
      [] OTHER -> FALSE

\* Lines 160-191: the tables one operation may leave in df.
OpResults(op, df) ==
    CASE op.type = "filter" /\ op.column \in df.columns /\ op.condition = "equals" ->
            {FilterEquals(df, op.column, op.value)}
      [] op.type = "sort" /\ op.column \in df.columns ->
            SortValues(df, op.column, op.ascending)
      [] op.type = "deduplicate" -> {DropDuplicates(df, op.columns)}
      [] OTHER -> {df}

\* Line 160: for operation in operations.
OpAtReversed(ops, i) == ops[Len(ops) + 1 - i]
OpAt(ops, i) == ops[i]

EmptyFrame == [columns |-> {}, rows |-> <<>>]

PpIdle ==
    /\ pp_pc = "idle"
    /\ pp_data = <<>>
    /\ pp_ops = <<>>
    /\ pp_export = "None"
    /\ pp_df = EmptyFrame
    /\ pp_i = 0
    /\ pp_trace = <<>>
    /\ pp_exported = <<>>
    /\ pp_failed = FALSE
    /\ pp_result = <<>>

PpInit ==
    /\ pp_pc = "frame"
    /\ pp_data \in PpData
    /\ pp_ops \in PpChains
    /\ pp_export = "unread"
    /\ pp_df = EmptyFrame
    /\ pp_i = 0
    /\ pp_trace = <<>>
    /\ pp_exported = <<>>
    /\ pp_failed = FALSE
    /\ pp_result = <<>>

ppArgs == <<pp_data, pp_ops>>

\* Lines 153-158.
PpFrame ==
    /\ pp_pc = "frame"
    /\ pp_df' = DataFrame(pp_data)
    /\ pp_i' = 1
    /\ pp_pc' = "ops"
    /\ UNCHANGED <<ppArgs, pp_export, pp_trace, pp_exported, pp_failed, pp_result>>
    /\ UNCHANGED notPp

\* Lines 208-210: the except clause returns the data argument.
PpExcept ==
    /\ pp_failed' = TRUE
    /\ pp_result' = pp_data
    /\ pp_pc' = "returned"

\* Lines 160-191: one turn of the loop.
PpApply ==
    /\ pp_pc = "ops"
    /\ pp_i <= Len(pp_ops)
    /\ ~OpRaises(OpAt(pp_ops, pp_i), pp_df)
    /\ \E df \in OpResults(OpAt(pp_ops, pp_i), pp_df) :
          /\ pp_df' = df
          /\ pp_trace' = Append(pp_trace, df)
    /\ pp_i' = pp_i + 1
    /\ UNCHANGED <<ppArgs, pp_export, pp_pc, pp_exported, pp_failed, pp_result>>
    /\ UNCHANGED notPp

\* One turn of the loop whose operation raises.
PpApplyRaises ==
    /\ pp_pc = "ops"
    /\ pp_i <= Len(pp_ops)
    /\ OpRaises(OpAt(pp_ops, pp_i), pp_df)
    /\ PpExcept
    /\ UNCHANGED <<ppArgs, pp_export, pp_df, pp_i, pp_trace, pp_exported>>
    /\ UNCHANGED notPp

\* Lines 193-206: the export, when configured, then return df.to_dict('records').
PpFinish ==
    /\ pp_pc = "ops"
    /\ pp_i > Len(pp_ops)
    /\ \E format \in ExportFormats :
          /\ pp_export' = format
          /\ pp_exported' = IF format = "None" THEN pp_exported
                            ELSE Append(pp_exported, pp_df)
    /\ pp_result' = ToDict(pp_df)
    /\ pp_pc' = "returned"
    /\ UNCHANGED <<ppArgs, pp_df, pp_i, pp_trace, pp_failed>>
    /\ UNCHANGED notPp

\* Lines 198-204 when the writer raises (a path that cannot be written).
PpExportRaises ==
    /\ pp_pc = "ops"
    /\ pp_i > Len(pp_ops)
    /\ pp_export' \in ExportFormats \ {"None"}
    /\ PpExcept
    /\ UNCHANGED <<ppArgs, pp_df, pp_i, pp_trace, pp_exported>>
    /\ UNCHANGED notPp

PpNext == PpFrame \/ PpApply \/ PpApplyRaises \/ PpFinish \/ PpExportRaises

(***************************************************************************)
(* Parser.extract_links and extract_images (parser.py).  A url is a        *)
(* sequence of pieces: a scheme prefix, "/" and name characters.           *)
(***************************************************************************)
\* The base urls handed in: none, a host, a host with a trailing slash, a
\* directory, a directory with a trailing slash.
BaseUrls ==
    {<<>>, <<"http://", "h">>, <<"http://", "h", "/">>, <<"http://", "h", "/", "d">>,
     <<"http://", "h", "/", "d", "/">>}

\* The href and src values: relative paths, an absolute url, and script
\* links as authors write them.
RelativeRefs == SeqsUpTo({"/", "p"}, MaxRefLen)
Refs ==
    RelativeRefs \cup {<<"http://", "o">>, <<"javascript:", "p">>, <<"JavaScript:", "p">>}
RefLists == SeqsUpTo(Refs, MaxTags)

\* str.startswith on the first piece.
StartsWith(url, pieces) == url # <<>> /\ Head(url) \in pieces

\* Lines 74-78 and 145-149: the value as it is when there is no base or it
\* is an http(s) url, else the base and the value put together.
Absolutize(base, ref) ==
    IF base # <<>> /\ ~StartsWith(ref, {"http://", "https://"})
    THEN IF StartsWith(ref, {"/"}) THEN base \o ref ELSE base \o <<"/">> \o ref
    ELSE ref

\* Lines 67-84: the links of the tags, in order, without the values that
\* start with javascript:.
RECURSIVE Links(_, _)
Links(refs, base) ==
    IF refs = <<>> THEN <<>>
    ELSE IF StartsWith(Head(refs), {"javascript:"}) THEN Links(Tail(refs), base)
    ELSE <<[ref |-> Head(refs), url |-> Absolutize(base, Head(refs))]>>
         \o Links(Tail(refs), base)

\* Lines 141-155: the images of the tags, in order.
Images(refs, base) ==
    [i \in 1..Len(refs) |-> [ref |-> refs[i], url |-> Absolutize(base, refs[i])]]

LkIdle ==
    /\ lk_pc = "idle"
    /\ lk_base = <<>>
    /\ lk_refs = <<>>
    /\ lk_call = "none"
    /\ lk_result = <<>>

LkInit ==
    /\ lk_pc = "ready"
    /\ lk_base \in BaseUrls
    /\ lk_refs \in RefLists
    /\ lk_call = "none"
    /\ lk_result = <<>>

ExtractLinks ==
    /\ lk_pc = "ready"
    /\ lk_call' = "extract_links"
    /\ lk_result' = Links(lk_refs, lk_base)
    /\ lk_pc' = "done"
    /\ UNCHANGED <<lk_base, lk_refs>>
    /\ UNCHANGED notLk

ExtractImages ==
    /\ lk_pc = "ready"
    /\ lk_call' = "extract_images"
    /\ lk_result' = Images(lk_refs, lk_base)
    /\ lk_pc' = "done"
    /\ UNCHANGED <<lk_base, lk_refs>>
    /\ UNCHANGED notLk

LkNext == ExtractLinks \/ ExtractImages

(***************************************************************************)
(* JSONStorage.save and load (storage.py).                                 *)
(***************************************************************************)
\* The records handed to save: two that json can write, and one holding a
\* value json.dump raises TypeError on.
JsGood == {"r1", "r2"}
JsRecords == JsGood \cup {"unserializable"}
JsBatches == SeqsUpTo(JsRecords, MaxJsBatch) \ {<<>>}

Serializable(records) == \A i \in 1..Len(records) : records[i] \in JsGood

NoFile == [exists |-> FALSE, valid |-> FALSE, records |-> <<>>]
Document(records) == [exists |-> TRUE, valid |-> TRUE, records |-> records]
\* The text json.dump had written when it raised: an unfinished document.
Truncated(records) == [exists |-> TRUE, valid |-> FALSE, records |-> records]

\* Lines 145-148: json.load of the file can be done.
Readable(file) == ~file.exists \/ file.valid

\* Lines 144-151: existing_data + data.
Combined(file, data) == file.records \o data

JsIdle ==
    /\ js_file = NoFile
    /\ js_stored = <<>>
    /\ js_saves = 0
    /\ js_last = "none"
    /\ js_ret = "none"
    /\ js_loaded = <<>>

\* save(data) returning True: the file is read, then rewritten with the
\* combined list.
JsSaveOk ==
    /\ js_saves < MaxJsSaves
    /\ Readable(js_file)
    /\ \E data \in JsBatches :
          /\ Serializable(data)
          /\ js_file' = Document(Combined(js_file, data))
          /\ js_stored' = js_stored \o data
    /\ js_saves' = js_saves + 1
    /\ js_last' = "save"
    /\ js_ret' = "True"
    /\ UNCHANGED js_loaded
    /\ UNCHANGED notJs

\* save(data) when os.makedirs, the read of the existing file or the open for
\* writing raises: the file is as it was.
JsSaveFailsBeforeWrite ==
    /\ js_saves < MaxJsSaves
    /\ js_saves' = js_saves + 1
    /\ js_last' = "save"
    /\ js_ret' = "False"
    /\ UNCHANGED <<js_file, js_stored, js_loaded>>
    /\ UNCHANGED notJs

\* save(data) when json.dump raises (a value it cannot serialize, or a write
\* error): open(path, 'w') at line 153 has emptied the file, and json.dump
\* has written the text of the records before the point of failure.
JsSaveDumpFails ==
    /\ js_saves < MaxJsSaves
    /\ Readable(js_file)
    /\ \E data \in JsBatches :
          LET combined == Combined(js_file, data)
          IN  \E n \in 0..(Len(combined) - 1) :
                 /\ Serializable(SubSeq(combined, 1, n))
                 /\ js_file' = Truncated(SubSeq(combined, 1, n))
    /\ js_saves' = js_saves + 1
    /\ js_last' = "save"
    /\ js_ret' = "False"
    /\ UNCHANGED <<js_stored, js_loaded>>
    /\ UNCHANGED notJs

\* Lines 169-179: [] without a file, the parsed list, or [] when json.load
\* raises.
JsLoadResult(file) == IF file.exists /\ file.valid THEN file.records ELSE <<>>

JsLoad ==
    /\ js_loaded' = JsLoadResult(js_file)
    /\ js_last' = "load"
    /\ UNCHANGED <<js_file, js_stored, js_saves, js_ret>>
    /\ UNCHANGED notJs

JsNext == JsSaveOk \/ JsSaveFailsBeforeWrite \/ JsSaveDumpFails \/ JsLoad

(***************************************************************************)
(* PyppeteerScraper and PlaywrightScraper: the browser is set up by the    *)
(* first scrape call (scraper.py).                                         *)
(***************************************************************************)
LazyModes == {"pyppeteer", "playwright"}

\* How far a _setup_browser call gets: the statement that raises, or "ok".
SetupOutcomes(mode) ==
    IF mode = "playwright"
    THEN {"start_raises", "launch_raises", "new_context_raises", "new_page_raises", "ok"}
    ELSE {"launch_raises", "new_page_raises", "set_user_agent_raises", "ok"}

\* The attributes _setup_browser has assigned when it ends in this way.
SetupAssigns(mode, outcome) ==
    IF mode = "playwright"
    THEN CASE outcome = "start_raises" -> {}
           [] outcome = "launch_raises" -> {"playwright"}
           [] outcome = "new_context_raises" -> {"playwright", "browser"}
           [] outcome = "new_page_raises" -> {"playwright", "browser", "context"}
           [] OTHER -> {"playwright", "browser", "context", "page"}
    ELSE CASE outcome = "launch_raises" -> {}
           [] outcome = "new_page_raises" -> {"browser"}
           [] OTHER -> {"browser", "page"}

\* The guard of the setup: `if not self.playwright` in PlaywrightScraper.scrape,
\* `if not self.browser` in PyppeteerScraper._scrape_async.
SetupGuard(mode, held) ==
    IF mode = "playwright" THEN "playwright" \notin held ELSE "browser" \notin held

NoScrape ==
    [op |-> "none", ready_before |-> FALSE, held_before |-> {}, setup_called |-> FALSE,
     outcome |-> "none"]

LzIdle ==
    /\ lz_mode = "none"
    /\ lz_held = {}
    /\ lz_ready = FALSE
    /\ lz_setups = 0
    /\ lz_calls = 0
    /\ lz_last = NoScrape
    /\ lz_closed = FALSE

LzInit ==
    /\ lz_mode \in LazyModes
    /\ lz_held = {}
    /\ lz_ready = FALSE
    /\ lz_setups = 0
    /\ lz_calls = 0
    /\ lz_last = NoScrape
    /\ lz_closed = FALSE

\* What the call did: op, the state it found, whether it called the setup,
\* and how it ended.
Called(op, setup_called, outcome) ==
    [op |-> op, ready_before |-> lz_ready, held_before |-> lz_held,
     setup_called |-> setup_called, outcome |-> outcome]

\* scrape(url) whose guard calls _setup_browser: a setup that raises leaves
\* scrape with its exception; after a complete one the page is navigated,
\* which returns the content or raises.
LzScrapeSettingUp ==
    /\ ~lz_closed
    /\ lz_calls < MaxScrapes
    /\ SetupGuard(lz_mode, lz_held)
    /\ \E setup \in SetupOutcomes(lz_mode) :
          /\ lz_held' = lz_held \cup SetupAssigns(lz_mode, setup)
          /\ lz_ready' = (setup = "ok")
          /\ \E result \in IF setup = "ok" THEN {"content", "navigation_raises"}
                           ELSE {setup} :
                lz_last' = Called("scrape", TRUE, result)
    /\ lz_setups' = lz_setups + 1
    /\ lz_calls' = lz_calls + 1
    /\ UNCHANGED <<lz_mode, lz_closed>>
    /\ UNCHANGED notLz

\* scrape(url) whose guard skips the setup: self.page.goto, on whatever
\* self.page is; on None it raises AttributeError.
LzScrapeDirect ==
    /\ ~lz_closed
    /\ lz_calls < MaxScrapes
    /\ ~SetupGuard(lz_mode, lz_held)
    /\ \E result \in IF "page" \in lz_held THEN {"content", "navigation_raises"}
                     ELSE {"page_is_None"} :
          lz_last' = Called("scrape", FALSE, result)
    /\ lz_calls' = lz_calls + 1
    /\ UNCHANGED <<lz_mode, lz_held, lz_ready, lz_setups, lz_closed>>
    /\ UNCHANGED notLz

\* close(): each attribute that is not None is closed, without a try; with
\* nothing held no statement runs.  The close of a held browser may raise.
LzClose ==
    /\ ~lz_closed
    /\ lz_closed' = TRUE
    /\ \E result \in IF lz_held = {} THEN {"returned"} ELSE {"returned", "close_raises"} :
          lz_last' = Called("close", FALSE, result)
    /\ UNCHANGED <<lz_mode, lz_held, lz_ready, lz_setups, lz_calls>>
    /\ UNCHANGED notLz

LzNext == LzScrapeSettingUp \/ LzScrapeDirect \/ LzClose

(***************************************************************************)
(* execute_pipeline (main.py).                                             *)
(***************************************************************************)
StorageTypes == {"csv", "json", "mongodb", "sqlite"}

\* ScraperFactory.get_scraper: the class for the mode, SimpleScraper for a
\* mode that is not in the table.
SameName(name) == name
get_scraper(mode) == IF mode \in Modes THEN mode ELSE "simple"

\* StorageFactory.get_storage: the class for the type, CSVStorage for a type
\* that is not in the table.
get_storage(type) == IF type \in StorageTypes THEN type ELSE "csv"

\* The logger.warning calls of the two factories for these settings.
FallbackWarnings(mode, type) ==
    (IF mode \in Modes THEN {} ELSE {"get_scraper"})
    \cup (IF type \in StorageTypes THEN {} ELSE {"get_storage"})

\* What the constructor of a fetch backend opens: SimpleScraper a
\* requests.Session, SeleniumScraper a browser; the others nothing yet.
ScraperOpens(class) ==
    CASE class = "simple" -> {"session"}
      [] class = "selenium" -> {"browser"}
      [] OTHER -> {}

\* What the first scrape of a lazily set up backend opens.
ScrapeOpens(class) == IF class \in {"pyppeteer", "playwright"} THEN {"browser"} ELSE {}

\* What the constructor of a storage backend creates, by the outcome of the
\* _connect it runs: SQLiteStorage the parent directory, then the database
\* file with its table; MongoDBStorage a client with its monitor connection;
\* the file storages only keep the path.
StorageOpens(class, outcome) ==
    CASE class = "sqlite" /\ outcome = "ok" -> {"directory", "connection", "table"}
      [] class = "sqlite" /\ outcome = "create_all_raises" -> {"directory"}
      [] class = "mongodb" /\ outcome # "client_raises" -> {"connection"}
      [] OTHER -> {}

StorageOutcomes(class) ==
    IF class \in {"mongodb", "sqlite"} THEN ConnectOutcomes(class) ELSE {"ok"}

\* The urls a configuration may list: a prefix of these.
UrlPool == <<"u1", "u2", "u3", "u4">>
UrlLists == {SubSeq(UrlPool, 1, n) : n \in 0..MaxUrls}

\* The page a url answers with when it answers: one heading, with
\* whitespace before its text.
Pages == {[raw_empty |-> FALSE, elems |-> <<[tag |-> "h1", text |-> <<" ", "a">>]>>]}
NoContent == [raw_empty |-> TRUE, elems |-> <<>>]

\* The selector maps of the runs: none, one ordinary field, and one that
\* names the fields the orchestrator adds itself.
ReservedKeys == {"url", "timestamp", "site_name"}
ExtraKeys == {"links", "images", "page_metadata"}
PipelineSelectors ==
    {<<>>,
     [k \in {"title"} |-> "h1"],
     [k \in {"title"} \cup ReservedKeys \cup ExtraKeys |-> "h1"]}

\* Values the orchestrator and the storage put into a record.
UrlValue(url) == Scalar(<<url>>)
SiteValue(name) == IF name = "None" THEN Null ELSE Scalar(<<name>>)
OrchestratorTime == [kind |-> "time", v |-> <<"time.time()">>]
StorageTime == [kind |-> "time", v |-> <<"datetime.now()">>]
Extracted(key) == [kind |-> key, v |-> <<>>]

\* parsed_data[key] = value
Put(record, key, value) ==
    [k \in DOMAIN record \cup {key} |-> IF k = key THEN value ELSE record[k]]

\* Lines 98-100: url, timestamp and site_name are assigned after extraction,
\* over whatever the selectors put under these names.
AddMetadata(record, url, name) ==
    Put(Put(Put(record, "url", UrlValue(url)), "timestamp", OrchestratorTime),
        "site_name", SiteValue(name))

\* Lines 103-110: links, images and page_metadata, for the flags that are set.
AddExtras(record, flags) ==
    [k \in DOMAIN record \cup flags |-> IF k \in flags THEN Extracted(k) ELSE record[k]]

\* MongoDBStorage.save stamps the caller's record in place (item['timestamp']
\* = timestamp) and insert_many gives it an _id.
MongoStamp(record) == Put(Put(record, "timestamp", StorageTime), "_id", Extracted("_id"))

\* The except clause of the loop logs and lets the loop go on with the next
\* url (n is the number of urls).
AfterErrorAbort(i, n) == n + 1
AfterError(i, n) == i + 1

PipeIdle ==
    /\ pc = "idle"
    /\ scraper_mode = "simple"
    /\ storage_type = "csv"
    /\ config_urls = <<>>
    /\ site_name = "None"
    /\ site_urls = <<>>
    /\ selectors = <<>>
    /\ extras = {}
    /\ scraper = "none"
    /\ storage = "none"
    /\ opened = {}
    /\ warned = {}
    /\ scraper_closed = FALSE
    /\ storage_closed = FALSE
    /\ urls = <<>>
    /\ idx = 0
    /\ html_content = NoContent
    /\ parsed_data = EmptyRecord
    /\ fetched = <<>>
    /\ outcomes = <<>>
    /\ saved = <<>>
    /\ save_returns = <<>>
    /\ all_results = <<>>
    /\ delays = <<>>
    /\ post_state = "none"
    /\ ret = "none"

\* The call execute_pipeline(pipeline_config), for any configuration.
PipeInit ==
    /\ pc = "load_config"
    /\ scraper_mode \in Modes \cup {"curl"}
    /\ storage_type \in StorageTypes \cup {"xml"}
    /\ config_urls \in {<<>>} \cup {<<l>> : l \in UrlLists}
    /\ site_name \in {"None", "shop"}
    /\ site_urls \in IF site_name = "None" THEN {<<>>} ELSE {<<>>, <<"s1">>}
    /\ selectors \in PipelineSelectors
    /\ extras \in {{}, ExtraKeys}
    /\ scraper = "none"
    /\ storage = "none"
    /\ opened = {}
    /\ warned = {}
    /\ scraper_closed = FALSE
    /\ storage_closed = FALSE
    /\ urls = <<>>
    /\ idx = 0
    /\ html_content = NoContent
    /\ parsed_data = EmptyRecord
    /\ fetched = <<>>
    /\ outcomes = <<>>
    /\ saved = <<>>
    /\ save_returns = <<>>
    /\ all_results = <<>>
    /\ delays = <<>>
    /\ post_state = "none"
    /\ ret = "none"

pipeConfig == <<scraper_mode, storage_type, site_name, site_urls, selectors, extras>>
pipeBackends == <<scraper, storage, opened, warned, scraper_closed, storage_closed>>
pipeLogs == <<fetched, outcomes, saved, save_returns, all_results, delays>>
pipeUrl == <<html_content, parsed_data>>

\* The outer except clause, lines 136-138: the error is logged and False
\* returned; nothing is closed on this path.
ReturnFalse ==
    /\ pc' = "return_138"
    /\ ret' = "False"

\* execute_pipeline has returned, at one of its three return statements.
Returned == pc \in {"return_66", "return_134", "return_138"}


\* Lines 43-44: the settings are loaded.
LoadConfig ==
    /\ pc = "load_config"
    /\ pc' = "init"
    /\ UNCHANGED <<pipeConfig, pipeBackends, pipeLogs, pipeUrl, config_urls, urls, idx,
                   post_state, ret>>
    /\ UNCHANGED notPipe

\* Lines 43-44 when Config raises (no settings file): the outer except clause.
LoadConfigRaises ==
    /\ pc = "load_config"
    /\ ReturnFalse
    /\ UNCHANGED <<pipeConfig, pipeBackends, pipeLogs, pipeUrl, config_urls, urls, idx,
                   post_state>>
    /\ UNCHANGED notPipe

\* Lines 47-50: both backends are constructed, before the urls are looked at.
InitComponents ==
    /\ pc = "init"
    /\ scraper' = get_scraper(scraper_mode)
    /\ storage' = get_storage(storage_type)
    /\ \E outcome \in StorageOutcomes(get_storage(storage_type)) :
          opened' = ScraperOpens(get_scraper(scraper_mode))
                        \cup StorageOpens(get_storage(storage_type), outcome)
    /\ warned' = FallbackWarnings(scraper_mode, storage_type)
    /\ pc' = "resolve"
    /\ UNCHANGED <<pipeConfig, pipeLogs, pipeUrl, scraper_closed, storage_closed,
                   config_urls, urls, idx, post_state, ret>>
    /\ UNCHANGED notPipe

\* Line 48 when SeleniumScraper.__init__ raises (the driver cannot be set
\* up): no backend exists yet.
InitScraperRaises ==
    /\ pc = "init"
    /\ get_scraper(scraper_mode) = "selenium"
    /\ ReturnFalse
    /\ UNCHANGED <<pipeConfig, pipeBackends, pipeLogs, pipeUrl, config_urls, urls, idx,
                   post_state>>
    /\ UNCHANGED notPipe

\* urls = pipeline_config.get('urls', []); urls.extend(site_urls): the list
\* of the configuration itself is extended.
GetUrls(entry) == IF entry = <<>> THEN <<>> ELSE entry[1]
ResolvedUrls ==
    IF site_name # "None" THEN GetUrls(config_urls) \o site_urls ELSE GetUrls(config_urls)

\* The 'urls' entry after line 62: get returned the caller's own list when
\* the key is there, so extend has changed that list.
Extended(entry) == IF entry = <<>> THEN entry ELSE <<ResolvedUrls>>

\* Lines 55-73 with at least one url.
ResolveUrls ==
    /\ pc = "resolve"
    /\ ResolvedUrls # <<>>
    /\ urls' = ResolvedUrls
    /\ config_urls' = Extended(config_urls)
    /\ idx' = 1
    /\ pc' = "fetch"
    /\ UNCHANGED <<pipeConfig, pipeBackends, pipeLogs, pipeUrl, post_state, ret>>
    /\ UNCHANGED notPipe

\* Lines 64-66: no url at all; False is returned from inside the try.
ResolveEmpty ==
    /\ pc = "resolve"
    /\ ResolvedUrls = <<>>
    /\ urls' = ResolvedUrls
    /\ pc' = "return_66"
    /\ ret' = "False"
    /\ UNCHANGED <<pipeConfig, pipeBackends, pipeLogs, pipeUrl, config_urls, idx,
                   post_state>>
    /\ UNCHANGED notPipe

\* Lines 59-60 when the registry's entry for site_name is not a mapping:
\* site_config.get raises, outside the handler of the loop.
ResolveRaises ==
    /\ pc = "resolve"
    /\ site_name # "None"
    /\ ReturnFalse
    /\ UNCHANGED <<pipeConfig, pipeBackends, pipeLogs, pipeUrl, config_urls, urls, idx,
                   post_state>>
    /\ UNCHANGED notPipe

\* The loop goes to position next, or leaves for post-processing.
GoOn(next) ==
    /\ idx' = next
    /\ pc' = IF next > Len(urls) THEN "post" ELSE "fetch"
    /\ html_content' = NoContent
    /\ parsed_data' = EmptyRecord

\* Lines 121-122: the handler of the loop.
HandleUrlError ==
    /\ outcomes' = Append(outcomes, "error")
    /\ GoOn(AfterError(idx, Len(urls)))

\* Line 83: scraper.scrape(url) returns a page.
FetchContent ==
    /\ pc = "fetch"
    /\ fetched' = Append(fetched, urls[idx])
    /\ opened' = opened \cup ScrapeOpens(scraper)
    /\ \E page \in Pages : html_content' = page
    /\ pc' = "extract"
    /\ UNCHANGED <<pipeConfig, scraper, storage, warned, scraper_closed, storage_closed,
                   outcomes, saved, save_returns, all_results, delays, parsed_data,
                   config_urls, urls, idx, post_state, ret>>
    /\ UNCHANGED notPipe

\* Lines 83-87: scraper.scrape(url) returns nothing; continue.
FetchEmpty ==
    /\ pc = "fetch"
    /\ fetched' = Append(fetched, urls[idx])
    /\ opened' = opened \cup ScrapeOpens(scraper)
    /\ outcomes' = Append(outcomes, "empty")
    /\ GoOn(idx + 1)
    /\ UNCHANGED <<pipeConfig, scraper, storage, warned, scraper_closed, storage_closed,
                   saved, save_returns, all_results, delays,
                   config_urls, urls, post_state, ret>>
    /\ UNCHANGED notPipe

\* Line 83 when scraper.scrape(url) raises, the browser set up or not.
FetchRaises ==
    /\ pc = "fetch"
    /\ fetched' = Append(fetched, urls[idx])
    /\ \E o \in {{}, ScrapeOpens(scraper)} : opened' = opened \cup o
    /\ HandleUrlError
    /\ UNCHANGED <<pipeConfig, scraper, storage, warned, scraper_closed, storage_closed,
                   saved, save_returns, all_results, delays,
                   config_urls, urls, post_state, ret>>
    /\ UNCHANGED notPipe

\* Lines 90-95: no backend returns a mapping when called without selectors,
\* so the page goes through parse_html.
Extract ==
    /\ pc = "extract"
    /\ parsed_data' = parse_html(html_content, selectors)
    /\ pc' = "enrich"
    /\ UNCHANGED <<pipeConfig, pipeBackends, pipeLogs, html_content, config_urls, urls,
                   idx, post_state, ret>>
    /\ UNCHANGED notPipe

\* Line 95 when parse_html raises.
ExtractRaises ==
    /\ pc = "extract"
    /\ HandleUrlError
    /\ UNCHANGED <<pipeConfig, pipeBackends, fetched, saved, save_returns, all_results,
                   delays, config_urls, urls, post_state, ret>>
    /\ UNCHANGED notPipe

\* Lines 98-110: the orchestrator's fields, then the optional ones.
Enrich ==
    /\ pc = "enrich"
    /\ parsed_data' = AddExtras(AddMetadata(parsed_data, urls[idx], site_name), extras)
    /\ pc' = "persist"
    /\ UNCHANGED <<pipeConfig, pipeBackends, pipeLogs, html_content, config_urls, urls,
                   idx, post_state, ret>>
    /\ UNCHANGED notPipe

\* Lines 103-110 when one of the optional extractions raises.
EnrichRaises ==
    /\ pc = "enrich"
    /\ extras # {}
    /\ HandleUrlError
    /\ UNCHANGED <<pipeConfig, pipeBackends, fetched, saved, save_returns, all_results,
                   delays, config_urls, urls, post_state, ret>>
    /\ UNCHANGED notPipe

\* Line 119: time.sleep(config.get_delay_between_requests()), the configured
\* delay as it is.
OrchestratorDelay(i) == [after |-> i, jittered |-> FALSE]

\* Lines 113-119: storage.save(parsed_data), whose result is not looked at
\* (every save catches its own exceptions and returns a boolean); the record
\* is appended to all_results; the delay is slept.  MongoDBStorage.save that
\* gets as far as its insert has stamped the record, the one all_results
\* then holds.
Persist ==
    /\ pc = "persist"
    /\ \E save_ret \in BOOLEAN :
       \E stamped \in IF storage = "mongodb" THEN {TRUE, save_ret} ELSE {FALSE} :
          /\ saved' = Append(saved, [url |-> urls[idx], record |-> parsed_data])
          /\ save_returns' = Append(save_returns, save_ret)
          /\ all_results' =
                Append(all_results, IF stamped THEN MongoStamp(parsed_data) ELSE parsed_data)
    /\ delays' = Append(delays, OrchestratorDelay(idx))
    /\ outcomes' = Append(outcomes, "ok")
    /\ GoOn(idx + 1)
    /\ UNCHANGED <<pipeConfig, pipeBackends, fetched, config_urls, urls, post_state, ret>>
    /\ UNCHANGED notPipe

\* Line 113 when storage.save raises: SQLiteStorage.save calls
\* session.rollback() inside its except clause, outside any try, so an
\* exception of the rollback reaches the handler of the loop.  The record is
\* not appended and the delay is not slept.
PersistRaises ==
    /\ pc = "persist"
    /\ storage = "sqlite"
    /\ saved' = Append(saved, [url |-> urls[idx], record |-> parsed_data])
    /\ HandleUrlError
    /\ UNCHANGED <<pipeConfig, pipeBackends, fetched, save_returns, all_results, delays,
                   config_urls, urls, post_state, ret>>
    /\ UNCHANGED notPipe

\* Lines 127-128: post_process, when configured; it catches its own
\* exceptions.
PostProcess ==
    /\ pc = "post"
    /\ post_state' \in {"skipped", "done", "failed"}
    /\ pc' = "close_scraper"
    /\ UNCHANGED <<pipeConfig, pipeBackends, pipeLogs, pipeUrl, config_urls, urls, idx, ret>>
    /\ UNCHANGED notPipe

\* Line 131: scraper.close().
CloseScraper ==
    /\ pc = "close_scraper"
    /\ scraper_closed' = TRUE
    /\ pc' = "close_storage"
    /\ UNCHANGED <<pipeConfig, pipeLogs, pipeUrl, scraper, storage, opened, warned, storage_closed,
                   config_urls, urls, idx, post_state, ret>>
    /\ UNCHANGED notPipe

\* Line 131 when the close of a backend that holds a browser raises: the
\* outer except clause returns False and line 132 is not reached.
CloseScraperRaises ==
    /\ pc = "close_scraper"
    /\ scraper \in BrowserModes
    /\ "browser" \in opened
    /\ scraper_closed' = TRUE
    /\ ReturnFalse
    /\ UNCHANGED <<pipeConfig, pipeLogs, pipeUrl, scraper, storage, opened, warned, storage_closed,
                   config_urls, urls, idx, post_state>>
    /\ UNCHANGED notPipe

\* Lines 132-134: storage.close(), return True.
CloseStorage ==
    /\ pc = "close_storage"
    /\ storage_closed' = TRUE
    /\ pc' = "return_134"
    /\ ret' = "True"
    /\ UNCHANGED <<pipeConfig, pipeLogs, pipeUrl, scraper, storage, opened, warned, scraper_closed,
                   config_urls, urls, idx, post_state>>
    /\ UNCHANGED notPipe

Next ==
    \/ LoadConfig \/ LoadConfigRaises
    \/ InitComponents \/ InitScraperRaises
    \/ ResolveUrls \/ ResolveEmpty \/ ResolveRaises
    \/ FetchContent \/ FetchEmpty \/ FetchRaises
    \/ Extract \/ ExtractRaises
    \/ Enrich \/ EnrichRaises
    \/ Persist \/ PersistRaises
    \/ PostProcess
    \/ CloseScraper \/ CloseScraperRaises
    \/ CloseStorage

(***************************************************************************)
(* Specifications.                                                         *)
(***************************************************************************)
InitParser == ParserInit /\ CsvIdle /\ FetchIdle /\ DbIdle /\ PipeIdle /\ SqIdle /\ PpIdle /\ LkIdle /\ JsIdle /\ LzIdle
SpecParser == InitParser /\ [][ParseHtml]_vars

\* The path holds no file when the storage is constructed.
InitCsv == CsvIdle /\ ParserIdle /\ FetchIdle /\ DbIdle /\ PipeIdle /\ SqIdle /\ PpIdle /\ LkIdle /\ JsIdle /\ LzIdle
SpecCsv == InitCsv /\ [][CsvNext]_vars

\* One scrape call on a backend of any mode, for any settings and any url.
InitFetch == FetchInit /\ ParserIdle /\ CsvIdle /\ DbIdle /\ PipeIdle /\ SqIdle /\ PpIdle /\ LkIdle /\ JsIdle /\ LzIdle
SpecFetch == InitFetch /\ [][FetchNext]_vars

\* One run of execute_pipeline.
Init == PipeInit /\ ParserIdle /\ CsvIdle /\ FetchIdle /\ DbIdle /\ SqIdle /\ PpIdle /\ LkIdle /\ JsIdle /\ LzIdle
Spec == Init /\ [][Next]_vars

\* The table of a connected SQLiteStorage: save and load calls.
InitSq == SqIdle /\ ParserIdle /\ CsvIdle /\ FetchIdle /\ DbIdle /\ PipeIdle /\ PpIdle /\ LkIdle /\ JsIdle /\ LzIdle
SpecSq == InitSq /\ [][SqNext]_vars

\* One post_process call, for any records, chain and export.
InitPp == PpInit /\ ParserIdle /\ CsvIdle /\ FetchIdle /\ DbIdle /\ PipeIdle /\ SqIdle /\ LkIdle /\ JsIdle /\ LzIdle
SpecPp == InitPp /\ [][PpNext]_vars

\* One extract_links or extract_images call, for any tags and base url.
InitLk == LkInit /\ ParserIdle /\ CsvIdle /\ FetchIdle /\ DbIdle /\ PipeIdle /\ SqIdle /\ PpIdle /\ JsIdle /\ LzIdle
SpecLk == InitLk /\ [][LkNext]_vars

\* A JSONStorage on a path that holds no file: save and load calls.
InitJs == JsIdle /\ ParserIdle /\ CsvIdle /\ FetchIdle /\ DbIdle /\ PipeIdle /\ SqIdle /\ PpIdle /\ LkIdle /\ LzIdle
SpecJs == InitJs /\ [][JsNext]_vars

\* One lazily set up browser backend: scrape calls, then close.
InitLz == LzInit /\ ParserIdle /\ CsvIdle /\ FetchIdle /\ DbIdle /\ PipeIdle /\ SqIdle /\ PpIdle /\ LkIdle /\ JsIdle
SpecLz == InitLz /\ [][LzNext]_vars

\* A database storage object: its construction, then save and load calls.
InitDb == DbInit /\ ParserIdle /\ CsvIdle /\ FetchIdle /\ PipeIdle /\ SqIdle /\ PpIdle /\ LkIdle /\ JsIdle /\ LzIdle
SpecDb == InitDb /\ [][DbNext]_vars

(***************************************************************************)
(* Claims about the extractor.                                             *)
(***************************************************************************)
\* The positions of the elements a selector matches, and the j-th of them.
MatchIdx(content, selector) ==
    {i \in 1..Len(content.elems) : content.elems[i].tag = selector}
NthMatch(content, selector, j) ==
    CHOOSE i \in MatchIdx(content, selector) :
        Cardinality({h \in MatchIdx(content, selector) : h <= i}) = j

AllSpaces(s) == \A i \in 1..Len(s) : s[i] = " "

\* t is r without its leading and trailing whitespace.
IsTrimOf(t, r) ==
    /\ t = <<>> \/ (t[1] # " " /\ t[Len(t)] # " ")
    /\ \E i \in 0..Len(r) : \E j \in i..Len(r) :
          /\ t = SubSeq(r, i + 1, j)
          /\ AllSpaces(SubSeq(r, 1, i))
          /\ AllSpaces(SubSeq(r, j + 1, Len(r)))

\* The 0 / 1 / N rule for the entry of one selector key.
ExactMatchEntry(content, sels, result, key) ==
    LET sel == sels[key]
        n == Cardinality(MatchIdx(content, sel))
    IN  /\ n = 0 => result[key] = Null
        /\ n = 1 =>
              /\ result[key].kind = "scalar"
              /\ IsTrimOf(result[key].v, content.elems[NthMatch(content, sel, 1)].text)
        /\ n > 1 =>
              /\ result[key].kind = "list"
              /\ Len(result[key].v) = n
              /\ \A j \in 1..n :
                    IsTrimOf(result[key].v[j], content.elems[NthMatch(content, sel, j)].text)

ExactMatch(content, sels, result) ==
    /\ DOMAIN result = DOMAIN sels
    /\ \A key \in DOMAIN sels : ExactMatchEntry(content, sels, result, key)

\* C8 as stated: with a non-empty selector map, parse_html returns exactly one
\* entry per selector key, null / trimmed scalar / ordered trimmed sequence
\* for 0 / 1 / N matches, for every content including the empty content.
C8_ExactMatchEveryContent ==
    (p_pc = "done" /\ DOMAIN p_selectors # {})
        => ExactMatch(p_content, p_selectors, p_result)

\* C8 amended: the 0 / 1 / N rule holds for every non-empty content; for the
\* empty content parse_html returns the empty record, with no entry at all.
C8_ExactMatchNonEmptyContent ==
    (p_pc = "done" /\ DOMAIN p_selectors # {})
        => IF p_content.raw_empty
           THEN p_result = EmptyRecord
           ELSE ExactMatch(p_content, p_selectors, p_result)

\* A call where one key matched nothing and another matched two elements, one
\* of them with whitespace around its text.
C8_Witness ==
    /\ p_pc = "done"
    /\ ~p_content.raw_empty
    /\ \E k1, k2 \in DOMAIN p_selectors :
          /\ MatchIdx(p_content, p_selectors[k1]) = {}
          /\ Cardinality(MatchIdx(p_content, p_selectors[k2])) > 1
          /\ \E i \in MatchIdx(p_content, p_selectors[k2]) :
                p_content.elems[i].text # Strip(p_content.elems[i].text)
          /\ p_result[k1] = Null
          /\ p_result[k2].kind = "list"


(***************************************************************************)
(* Claims about CSVStorage.                                                *)
(***************************************************************************)
\* The cell of a row under a column name, by the fieldnames of the writer
\* that wrote the row.
HasColumn(row, col) == \E pos \in 1..Len(row.fields) : row.fields[pos] = col
CellUnder(row, col) == row.cells[CHOOSE pos \in 1..Len(row.fields) : row.fields[pos] = col]

\* The row holds the record: a scalar under its key, each entry of a nested
\* mapping under key_subkey.
RowHoldsRecord(row, rec) ==
    /\ \A k \in DOMAIN rec \ DictKeys(rec) :
          HasColumn(row, k) /\ CellUnder(row, k) = rec[k]
    /\ \A k \in DictKeys(rec) : \A sk \in DOMAIN rec[k].v :
          /\ HasColumn(row, k \o "_" \o sk)
          /\ CellUnder(row, k \o "_" \o sk) = rec[k].v[sk]

NonDecreasing(ws) == \A i \in 1..(Len(ws) - 1) : ws[i] <= ws[i + 1]
WithinFloorAndCeiling(ws) == \A i \in 1..Len(ws) : WaitMin <= ws[i] /\ ws[i] <= WaitMax

\* The simple backend gave up on a url that failed every request.
SimpleExhausted == f_mode = "simple" /\ f_pc = "raised"

\* C5: a simple backend whose every attempt fails makes exactly the
\* configured max_retries attempts, waits non-decreasing times between the
\* floor and the ceiling, and then lets the fetch error itself propagate.
C5_RetriesAsConfiguredThenFetchError ==
    SimpleExhausted =>
        /\ f_attempts = f_max_retries
        /\ Len(f_waits) = f_attempts - 1
        /\ NonDecreasing(f_waits)
        /\ WithinFloorAndCeiling(f_waits)
        /\ f_error = f_kind

\* What the decorator does do, whatever max_retries says: three attempts, two
\* waits within the floor and the ceiling, then RetryError.
C5_DecoratorLiteral ==
    SimpleExhausted =>
        /\ f_attempts = StopAfterAttempt
        /\ Len(f_waits) = StopAfterAttempt - 1
        /\ NonDecreasing(f_waits)
        /\ WithinFloorAndCeiling(f_waits)
        /\ f_error = "RetryError"

\* C6: under every backend variant, a url that fails once and then succeeds
\* is retried after a backoff wait and scrape returns its content.
C6_OneFailureRetriedEveryVariant ==
    (f_fails0 = 1 /\ f_pc \in {"returned", "raised"}) =>
        /\ f_pc = "returned"
        /\ f_result = "content"
        /\ f_attempts = 2
        /\ Len(f_waits) = 1

\* What holds of the variant that is decorated.
C6_OneFailureRetriedSimple ==
    (f_mode = "simple" /\ f_fails0 = 1 /\ f_pc \in {"returned", "raised"}) =>
        /\ f_pc = "returned"
        /\ f_result = "content"
        /\ f_attempts = 2
        /\ Len(f_waits) = 1


(***************************************************************************)
(* Claims about the database storage backends.                             *)
(***************************************************************************)
\* The last call was made while no connection was established, called
\* _connect first and, where that failed, reported failure without raising.
ReconnectsFirst ==
    /\ db_last.connect_called
    /\ ~db_last.connect_ok => db_last.ret \in {"False", "empty"}
    /\ ~db_last.escaped

\* C10: a save or load call of MongoDBStorage or SQLiteStorage made while no
\* connection is established (the constructor's or a previous connect
\* attempt failed) first attempts to establish it; if that fails, save
\* returns False and load an empty sequence, nothing is raised, and a later
\* call attempts the connection again.
C10_LazyReconnectOnSaveAndLoad ==
    (db_last.op # "none" /\ ~db_last.connected_before) => ReconnectsFirst

\* What holds: every save call, and every load call of MongoDBStorage, or of
\* SQLiteStorage while its engine is not assigned, reconnects first.
C10_LazyReconnectWhereGuarded ==
    (/\ db_last.op # "none"
     /\ ~db_last.connected_before
     /\ (db_last.op = "save" \/ db_type = "mongodb" \/ db_last.connect_called))
        => ReconnectsFirst

\* No call lets an exception escape, and a call without a connection never
\* reports success.
C10_FailureReportedNotRaised ==
    /\ ~db_last.escaped
    /\ (db_last.op # "none" /\ ~db_connected) => db_last.ret \in {"False", "empty"}


(***************************************************************************)
(* Claims about execute_pipeline.                                          *)
(***************************************************************************)
\* C1: whenever execute_pipeline has created both backends, close() has been
\* called on both by the time it returns, on every path.
C1_BothBackendsClosedOnReturn ==
    (Returned /\ scraper # "none" /\ storage # "none")
        => (scraper_closed /\ storage_closed)

\* What holds: both backends are closed on the path that returns True.
C1_ClosedWhenTrueReturned ==
    ret = "True" => (scraper_closed /\ storage_closed)

\* C2: an exception in the fetch, extraction, enrichment or save step of one
\* url never ends the run: scrape is called once per url of the resolved
\* list, in list order, also for the urls after a failing one.
C2_EveryUrlAttemptedOnceInOrder ==
    /\ pc = "fetch" => fetched = SubSeq(urls, 1, idx - 1)
    /\ pc \in {"extract", "enrich", "persist"} => fetched = SubSeq(urls, 1, idx)
    /\ pc \in {"post", "close_scraper", "close_storage"} \/ Returned
          => (fetched = urls /\ Len(outcomes) = Len(urls))

\* A run that returned True although its first url raised, the second url
\* fetched and persisted after it.
C2_Witness ==
    /\ pc = "return_134"
    /\ Len(urls) >= 2
    /\ outcomes[1] = "error"
    /\ outcomes[2] = "ok"
    /\ fetched = urls

\* C3: when the resolved url list is empty, execute_pipeline returns False
\* and, before that return, no fetch backend session or browser has been
\* opened and no storage connection, directory or table created.
C3_EmptyListReturnsBeforeBackendIO ==
    pc = "return_66" => (ret = "False" /\ opened = {})

\* What holds: the empty list returns False without any fetch or save.
C3_EmptyListReturnsFalse ==
    pc = "return_66" => (ret = "False" /\ fetched = <<>> /\ saved = <<>>)

\* C4: after the processing of each url, whether it was persisted, yielded
\* no content or raised, the orchestrator sleeps its delay with jitter.
C4_JitteredDelayAfterEveryUrl ==
    \A k \in 1..Len(outcomes) :
        \E d \in 1..Len(delays) : delays[d].after = k /\ delays[d].jittered

\* What holds: the orchestrator sleeps the plain delay, and only after a url
\* whose record it handed to storage.
C4_PlainDelayAfterPersistedUrlOnly ==
    /\ \A k \in 1..Len(outcomes) :
          (\E d \in 1..Len(delays) : delays[d].after = k) <=> outcomes[k] = "ok"
    /\ \A d \in 1..Len(delays) : ~delays[d].jittered

\* The record carries url, timestamp and site_name with the values the
\* orchestrator gives them for this url.
HasOrchestratorValues(record, url) ==
    /\ ReservedKeys \subseteq DOMAIN record
    /\ record["url"] = UrlValue(url)
    /\ record["timestamp"] = OrchestratorTime
    /\ record["site_name"] = SiteValue(site_name)

\* The position in urls of the k-th url whose record was appended to
\* all_results.
NthOk(k) ==
    CHOOSE i \in 1..Len(outcomes) :
        /\ outcomes[i] = "ok"
        /\ Cardinality({j \in 1..i : outcomes[j] = "ok"}) = k

\* C7: every record handed to storage.save and appended to all_results
\* carries url, timestamp and site_name with the orchestrator's values, also
\* when the selector map has fields of these names.
C7_ReservedKeysCarryOrchestratorValues ==
    /\ \A k \in 1..Len(saved) :
          HasOrchestratorValues(saved[k].record, saved[k].url)
    /\ \A k \in 1..Len(all_results) :
          HasOrchestratorValues(all_results[k], urls[NthOk(k)])

\* What holds: the record is handed to storage.save with the orchestrator's
\* values, never a selector's; in all_results its url and site_name are
\* still those, and its timestamp is the orchestrator's or the one
\* MongoDBStorage.save wrote over it.
C7_EnrichmentWinsOverSelectors ==
    /\ \A k \in 1..Len(saved) :
          HasOrchestratorValues(saved[k].record, saved[k].url)
    /\ \A k \in 1..Len(all_results) :
          /\ all_results[k]["url"] = UrlValue(urls[NthOk(k)])
          /\ all_results[k]["site_name"] = SiteValue(site_name)
          /\ all_results[k]["timestamp"] \in {OrchestratorTime, StorageTime}
          /\ all_results[k]["timestamp"] = StorageTime => storage = "mongodb"

(***************************************************************************)
(* Claims about SQLiteStorage.load.                                        *)
(***************************************************************************)
\* C11: every mapping load returns has, under each promoted column (id, url,
\* title, content, timestamp), the value of that column of its row, also
\* when the JSON metadata of the row has a key of the same name.
C11_PromotedColumnsWin ==
    sq_query # "unset" =>
        LET rows == sq_read
        IN  /\ Len(sq_loaded) = Len(rows)
            /\ \A k \in 1..Len(rows) :
                  \A key \in PromotedKeys :
                      /\ key \in DOMAIN sq_loaded[k]
                      /\ sq_loaded[k][key] = Promoted(rows[k])[key]

\* What holds: the mapping has the promoted columns and the keys of the
\* metadata, with the metadata's value wherever the metadata has the key.
C11_MetadataWins ==
    sq_query # "unset" =>
        LET rows == sq_read
        IN  /\ Len(sq_loaded) = Len(rows)
            /\ \A k \in 1..Len(rows) :
                  /\ DOMAIN sq_loaded[k] = PromotedKeys \cup DOMAIN rows[k].metadata
                  /\ \A key \in DOMAIN sq_loaded[k] :
                        sq_loaded[k][key] =
                            IF key \in DOMAIN rows[k].metadata
                            THEN rows[k].metadata[key] ELSE Promoted(rows[k])[key]


(***************************************************************************)
(* Claims about post_process.                                              *)
(***************************************************************************)
\* The table the k-th operation was applied to, and the table after the
\* last operation.
TableBefore(k) == IF k = 1 THEN DataFrame(pp_data) ELSE pp_trace[k - 1]
LastTable == IF pp_trace = <<>> THEN DataFrame(pp_data) ELSE pp_trace[Len(pp_trace)]
KnownTypes == {"filter", "sort", "deduplicate"}

\* C12: when post-processing fails, execute_pipeline still returns True
\* with both backends closed.
C12_PostProcessFailureStillTrueAndClosed ==
    (Returned /\ post_state = "failed")
        => (ret = "True" /\ scraper_closed /\ storage_closed)

\* What holds of post_process itself: when an operation or the export
\* raises, the except clause returns the data argument as it was given, and
\* the call returns.
C12_FailureReturnsInput ==
    /\ pp_failed => (pp_pc = "returned" /\ pp_result = pp_data)
    /\ pp_pc = "returned" /\ ~pp_failed => pp_result = ToDict(LastTable)

\* C13: the k-th table post_process produces is a result of the k-th
\* operation of the chain on the table before it (the data for k = 1); an
\* operation of an unknown type leaves the table as it is; a call that
\* returns without failure has applied the whole chain, returns the last
\* table and has exported that table when an export is configured.
C13_OperationsInListedOrder ==
    /\ Len(pp_trace) <= Len(pp_ops)
    /\ \A k \in 1..Len(pp_trace) :
          /\ pp_trace[k] \in OpResults(pp_ops[k], TableBefore(k))
          /\ pp_ops[k].type \notin KnownTypes => pp_trace[k] = TableBefore(k)
    /\ pp_pc = "returned" /\ ~pp_failed =>
          /\ Len(pp_trace) = Len(pp_ops)
          /\ pp_result = ToDict(LastTable)
          /\ pp_export \in ExportFormats
          /\ pp_exported = IF pp_export = "None" THEN <<>> ELSE <<LastTable>>

\* A chain of a filter and then a deduplicate, both of which removed rows,
\* returned and exported.
C13_Witness ==
    /\ pp_pc = "returned"
    /\ ~pp_failed
    /\ Len(pp_ops) = 2
    /\ pp_ops[1].type = "filter"
    /\ pp_ops[2].type = "deduplicate"
    /\ Len(pp_trace[1].rows) < Len(pp_data)
    /\ Len(pp_trace[2].rows) < Len(pp_trace[1].rows)
    /\ pp_exported = <<pp_trace[2]>>

\* The i-th smallest member of a set of positions.
NthOf(S, i) == CHOOSE j \in S : Cardinality({m \in S : m <= j}) = i

\* after holds exactly the rows of before at the positions of S, in order.
IsSelection(before, after, S) ==
    /\ Len(after) = Cardinality(S)
    /\ \A i \in 1..Len(after) : after[i] = before[NthOf(S, i)]

\* C14: a filter with condition equals on a column of the table leaves
\* exactly the rows whose cell in the column equals the value, in their
\* order; a filter on a column that is not in the table leaves the table
\* as it is.
C14_FilterEqualsRetainsMatchingRows ==
    \A k \in 1..Len(pp_trace) :
        (pp_ops[k].type = "filter" /\ pp_ops[k].condition = "equals") =>
            LET before == TableBefore(k)
                column == pp_ops[k].column
            IN  IF column \in before.columns
                THEN /\ pp_trace[k].columns = before.columns
                     /\ IsSelection(before.rows, pp_trace[k].rows,
                                    {j \in 1..Len(before.rows) :
                                        before.rows[j][column] = pp_ops[k].value})
                ELSE pp_trace[k] = before

\* A filter that kept some rows and dropped others, then a filter on an
\* unknown column.
C14_Witness ==
    /\ Len(pp_trace) = 2
    /\ pp_ops[1] = Operation("filter", "x", {})
    /\ pp_ops[2] = Operation("filter", "z", {})
    /\ pp_trace[1].rows # <<>>
    /\ Len(pp_trace[1].rows) < Len(pp_data)
    /\ pp_trace[2] = pp_trace[1]

\* Two rows agree on the columns.
Agree(r1, r2, columns) == \A c \in columns : r1[c] = r2[c]

\* The table of the spec's example.
ExampleRecords ==
    <<[x |-> IntCell(1), y |-> IntCell(2)], [x |-> IntCell(1), y |-> IntCell(2)],
      [x |-> IntCell(1), y |-> IntCell(3)]>>

\* C15: a deduplicate that is applied leaves exactly the rows that agree
\* with no earlier row on the subset (on all columns without a subset), in
\* their order; deduplicating its result again changes nothing; the example
\* table gives 2 rows without a subset and 1 row with the subset [x].
C15_DeduplicateKeepsFirstOccurrences ==
    \A k \in 1..Len(pp_trace) :
        pp_ops[k].type = "deduplicate" =>
            LET before == TableBefore(k)
                columns == DedupColumns(before, pp_ops[k].columns)
            IN  /\ IsSelection(before.rows, pp_trace[k].rows,
                               {j \in 1..Len(before.rows) :
                                   \A m \in 1..(j - 1) :
                                       ~Agree(before.rows[m], before.rows[j], columns)})
                /\ DropDuplicates(pp_trace[k], pp_ops[k].columns) = pp_trace[k]
                /\ before.rows = ExampleRecords =>
                      Len(pp_trace[k].rows) = IF pp_ops[k].columns = {} THEN 2 ELSE 1

\* The example table deduplicated without a subset, then on [x].
C15_Witness ==
    /\ pp_data = ExampleRecords
    /\ Len(pp_trace) = 2
    /\ pp_ops[1] = Operation("deduplicate", "None", {})
    /\ pp_ops[2] = Operation("deduplicate", "None", {"x"})
    /\ Len(pp_trace[1].rows) = 2
    /\ Len(pp_trace[2].rows) = 1
    /\ pp_trace[2].rows[1] = ExampleRecords[1]

(***************************************************************************)
(* Claims about the factories.                                             *)
(***************************************************************************)
\* C16: a mode outside simple, selenium, scrapy, pyppeteer, playwright gives
\* the SimpleScraper and a storage type outside csv, json, mongodb, sqlite
\* the CSVStorage, each with a warning; a known name gives its own class
\* without one; and the construction step ends the run only for a known
\* mode (whose constructor raised), never because a name is unknown.
C16_UnknownSelectionFallsBack ==
    /\ [](scraper # "none" =>
            /\ scraper = IF scraper_mode \in {"simple", "selenium", "scrapy",
                                              "pyppeteer", "playwright"}
                         THEN scraper_mode ELSE "simple"
            /\ storage = IF storage_type \in {"csv", "json", "mongodb", "sqlite"}
                         THEN storage_type ELSE "csv"
            /\ "get_scraper" \in warned <=> scraper # scraper_mode
            /\ "get_storage" \in warned <=> storage # storage_type)
    /\ [][pc = "init" /\ pc' = "return_138" =>
              scraper_mode \in {"simple", "selenium", "scrapy", "pyppeteer", "playwright"}]_vars

\* A run with an unknown mode and an unknown storage type that used the
\* defaults and returned True.
C16_Witness ==
    /\ pc = "return_134"
    /\ scraper_mode = "curl"
    /\ storage_type = "xml"
    /\ scraper = "simple"
    /\ storage = "csv"
    /\ warned = {"get_scraper", "get_storage"}
    /\ ret = "True"

(***************************************************************************)
(* Claims about extract_links and extract_images.                          *)
(***************************************************************************)
\* The value is relative: it has no scheme prefix.
IsRelative(ref) == ~StartsWith(ref, {"http://", "https://", "javascript:", "JavaScript:"})

\* The url has a path separator as the last piece of the base and another
\* right after it.
SeparatorDuplicated(url, base) ==
    /\ Len(base) + 1 <= Len(url)
    /\ url[Len(base)] = "/"
    /\ url[Len(base) + 1] = "/"

\* C17: with a base url, every relative href or src comes back as the base
\* followed by the value with one path separator at the join, never two, and
\* extract_links returns no link that starts with javascript:.
C17_JoinHasOneSeparatorAndNoScriptLinks ==
    lk_pc = "done" =>
        \A k \in 1..Len(lk_result) :
            /\ (lk_base # <<>> /\ IsRelative(lk_result[k].ref)) =>
                  /\ SubSeq(lk_result[k].url, 1, Len(lk_base)) = lk_base
                  /\ ~SeparatorDuplicated(lk_result[k].url, lk_base)
            /\ lk_call = "extract_links" => ~StartsWith(lk_result[k].url, {"javascript:"})

\* What holds: a value is left out of the links exactly when it starts with
\* the lower-case text javascript:, and a relative value is appended to the
\* base as it is, after a "/" unless it starts with one.
C17_PlainConcatenation ==
    lk_pc = "done" =>
        /\ lk_call = "extract_links" =>
              Len(lk_result) =
                 Cardinality({i \in 1..Len(lk_refs) : ~StartsWith(lk_refs[i], {"javascript:"})})
        /\ \A k \in 1..Len(lk_result) :
              (lk_base # <<>> /\ IsRelative(lk_result[k].ref)) =>
                  lk_result[k].url =
                      lk_base \o (IF StartsWith(lk_result[k].ref, {"/"}) THEN <<>> ELSE <<"/">>)
                              \o lk_result[k].ref

(***************************************************************************)
(* Further claims about execute_pipeline.                                  *)
(***************************************************************************)
\* C18: every record in all_results went through a storage.save call that
\* returned True.
C18_AccumulatedRecordsWereSaved ==
    /\ Len(save_returns) = Len(all_results)
    /\ \A k \in 1..Len(all_results) : save_returns[k]

\* What holds: a record is accumulated exactly when storage.save returned,
\* with whatever result.
C18_AccumulatedWhenSaveReturned ==
    /\ Len(save_returns) = Len(all_results)
    /\ Len(all_results) = Cardinality({k \in 1..Len(outcomes) : outcomes[k] = "ok"})

\* The loop has been entered or the run has returned past the resolution.
PastResolution ==
    pc \in {"fetch", "extract", "enrich", "persist", "post", "close_scraper",
            "close_storage", "return_134"}

\* C19: no step of execute_pipeline changes the caller's 'urls' entry, and
\* once the urls are resolved, resolving them again from the configuration
\* gives the list this run processes.
C19_CallerConfigurationUnchanged ==
    /\ [][config_urls' = config_urls]_vars
    /\ [](PastResolution => ResolvedUrls = urls)

\* What holds: the entry is left as it is when the key is absent or the site
\* registry adds no url; otherwise it holds the resolved list afterwards.
C19_EntryHoldsResolvedList ==
    PastResolution =>
        /\ config_urls # <<>> => config_urls = <<urls>>
        /\ (site_name = "None" \/ site_urls = <<>>) => ResolvedUrls = urls

(***************************************************************************)
(* A further claim about CSVStorage.                                       *)
(***************************************************************************)
\* C20: after any sequence of successful save calls on a path that held no
\* file, every data row was written with the columns of the header row, in
\* the header's order.
C20_EveryRowUnderHeaderColumns ==
    (csv_all_ok /\ csv_calls > 0) =>
        \A i \in 2..Len(csv_rows) :
            /\ csv_rows[i].kind = "data"
            /\ csv_rows[i].fields = csv_rows[1].cells

\* What holds: the header is the fieldnames of the call that created the
\* file, and each later row has one cell per fieldname of its own call.
C20_RowsFollowOwnFieldnames ==
    (csv_all_ok /\ csv_calls > 0) =>
        /\ csv_rows[1].kind = "header"
        /\ csv_rows[1].cells = csv_rows[1].fields
        /\ \A i \in 2..Len(csv_rows) : Len(csv_rows[i].cells) = Len(csv_rows[i].fields)

(***************************************************************************)
(* Claims about JSONStorage.                                               *)
(***************************************************************************)
\* C21: once a save has returned True, whatever save calls fail, the file
\* holds the records of the successful saves, in order, as a document the
\* next save can read, and a load returns exactly these records.
C21_FailedSaveLeavesFileIntact ==
    js_stored # <<>> =>
        /\ js_file = Document(js_stored)
        /\ js_last = "load" => js_loaded = js_stored

\* What holds: as long as the file is a JSON document it holds the records
\* of the successful saves, and a save that fails before line 153 changes
\* nothing.
C21_IntactWhileDocument ==
    /\ (js_file.exists /\ js_file.valid) => js_file.records = js_stored
    /\ ~js_file.exists => js_stored = <<>>
    /\ js_last = "load" => js_loaded = JsLoadResult(js_file)

(***************************************************************************)
(* Claims about the lazily set up browser backends.                        *)
(***************************************************************************)
\* C22: a scrape call that finds the browser not completely set up (never
\* set up, or a setup that failed part-way) calls the setup again, so it
\* never fails on a missing page; and close() with nothing held returns
\* without raising.
C22_FailedSetupIsRetried ==
    /\ lz_last.op = "scrape" =>
          /\ ~lz_last.ready_before => lz_last.setup_called
          /\ lz_last.outcome # "page_is_None"
    /\ (lz_last.op = "close" /\ lz_last.held_before = {}) => lz_last.outcome = "returned"

\* What holds: the setup is called exactly when the guarded attribute is
\* None (playwright, resp. browser), and close() with nothing held is a
\* no-op.
C22_SetupWhenGuardAttributeMissing ==
    /\ lz_last.op = "scrape" =>
          (lz_last.setup_called <=>
              (IF lz_mode = "playwright" THEN "playwright" ELSE "browser")
                  \notin lz_last.held_before)
    /\ (lz_last.op = "close" /\ lz_last.held_before = {}) => lz_last.outcome = "returned"

(***************************************************************************)
(* Claims about the value execute_pipeline returns.                        *)
(***************************************************************************)
\* No url of the run gave a record: each one failed or came back empty, and
\* nothing was handed to the storage.
NothingScraped ==
    /\ Len(outcomes) = Len(urls)
    /\ \A i \in 1..Len(outcomes) : outcomes[i] # "ok"
    /\ saved = <<>>

\* C23: once the settings are loaded and the resolved url list is not
\* empty, execute_pipeline returns True, whatever became of the urls (the
\* handler of the loop lets no exception out).
C23_TrueOnceUrlsResolved ==
    (Returned /\ urls # <<>>) => ret = "True"

\* What holds: with a resolved, non-empty list the outcomes of the urls
\* never decide the result; False is returned only when scraper.close()
\* raised, after the loop, and then the storage is left open.
C23_FalseOnlyWhenCloseRaised ==
    (Returned /\ urls # <<>> /\ ret = "False") =>
        /\ pc = "return_138"
        /\ Len(outcomes) = Len(urls)
        /\ scraper \in BrowserModes
        /\ scraper_closed /\ ~storage_closed

\* A run whose urls all failed or were empty, with nothing persisted, that
\* returned True.
C23_TrueWithNothingScraped == Returned /\ ret = "True" /\ urls # <<>> /\ NothingScraped

=============================================================================
